---- MODULE Spec2Model ----
(***************************************************************************)
(* A model of split_data.py: the aggregation pass over per-employee        *)
(* timelines (classification transitions, payroll roll-ups, peer cohorts,  *)
(* peer percentiles and COLA determinations).                              *)
(*                                                                         *)
(* Encodings.                                                              *)
(*  - A date is the integer YYYYMMDD of the ISO string "YYYY-MM-DD"; the   *)
(*    integer order is the lexicographic order of the strings and          *)
(*    date[:4] is date \div 10000.  Python's None is NONE and the empty    *)
(*    string is EMPTY, both below every date.                              *)
(*  - Money is kept in integers: a snapshot's pay is carried as the sum    *)
(*    of rate * percent (one hundred times the code's rate * (pct/100)).   *)
(*    Every comparison the code makes on pay is invariant under that       *)
(*    scale.  Percentages of COLA events are in tenths of a percent.       *)
(*  - A quotient the code computes in floating point is carried as the     *)
(*    exact fraction [num, den] and compared by cross-multiplication.      *)
(*  - A floating-point sum is rounded to the nearest number with a         *)
(*    significand of FloatBits bits, ties to even, as the sum of two       *)
(*    doubles is rounded to 53 bits.                                       *)
(*  - Meta, _roleStr and _searchStr (free text copied to the index) are    *)
(*    left out; no aggregate depends on them.                              *)
(***************************************************************************)
EXTENDS Integers, Sequences, FiniteSets, TLC

\* ------------------------------------------------------------------ bounds
\* Longest timeline of the employee whose timeline is drawn freely.
MaxSnaps == 3
\* Number of further employees, drawn from PeerTimelines.
MaxPeers == 1
\* Bits of the significand of a floating-point number.
FloatBits == 20
\* Longest list handed to median on its own.
MaxLen == 4
\* Most rows handed to the stats-map loops of the bench.
MaxRows == 3

\* ------------------------------------------------------- program constants
NONE == -1
EMPTY == 0

COLA_EVENTS ==
    << [label |-> "6.5% COLA", effective |-> 20240401, pct |-> 65],
       [label |-> "2% COLA",   effective |-> 20241101, pct |-> 20],
       [label |-> "3.5% COLA", effective |-> 20250601, pct |-> 35] >>

COLA_TOLERANCE_PCT == 4

\* ------------------------------------------------------------ small helpers
Truthy(d) == d # NONE /\ d # EMPTY

B3(b) == IF b THEN "True" ELSE "False"

Put(f, k, v) == IF k \in DOMAIN f THEN [f EXCEPT ![k] = v] ELSE f @@ (k :> v)

Get(f, k, default) == IF k \in DOMAIN f THEN f[k] ELSE default

Min(S) == CHOOSE x \in S : \A y \in S : x <= y

RECURSIVE sorted(_)
sorted(S) == IF S = {} THEN <<>> ELSE <<Min(S)>> \o sorted(S \ {Min(S)})

RECURSIVE InsertSorted(_, _)
InsertSorted(s, x) ==
    IF s = <<>> THEN <<x>>
    ELSE IF x < Head(s) THEN <<x>> \o s
    ELSE <<Head(s)>> \o InsertSorted(Tail(s), x)

\* The list is left as it is.
list_sort_keep(s) == s

RECURSIVE list_sort(_)
list_sort(s) == IF s = <<>> THEN <<>> ELSE InsertSorted(list_sort(Tail(s)), Head(s))

\* ------------------------------------------------- floating-point addition
RECURSIVE Pow2(_)
Pow2(n) == IF n = 0 THEN 1 ELSE 2 * Pow2(n - 1)

FloatLimit == Pow2(FloatBits)

\* The least k with x / 2^k below FloatLimit.
RECURSIVE Exponent(_, _)
Exponent(x, k) == IF x \div Pow2(k) < FloatLimit THEN k ELSE Exponent(x, k + 1)

\* Round to nearest, ties to even.
fround(x) ==
    IF x < 0 THEN 0 - (LET y == 0 - x IN
                       IF y < FloatLimit THEN y
                       ELSE LET unit == Pow2(Exponent(y, 1))
                                q    == y \div unit
                                r    == y % unit
                            IN  (IF 2 * r > unit \/ (2 * r = unit /\ q % 2 = 1)
                                 THEN q + 1 ELSE q) * unit)
    ELSE IF x < FloatLimit THEN x
    ELSE LET unit == Pow2(Exponent(x, 1))
             q    == x \div unit
             r    == x % unit
         IN  (IF 2 * r > unit \/ (2 * r = unit /\ q % 2 = 1) THEN q + 1 ELSE q) * unit

\* a + b on floats
fadd(a, b) == fround(a + b)

\* ------------------------------------------------------------ pay of a job
\* A value of a job's field is [k |-> "none"] (absent or null),
\* [k |-> "num", n |-> the number], [k |-> "huge"] (an integer above the
\* largest float) or [k |-> "text", s |-> the text]; the text of a rate or
\* of a percent is its sequence of characters.
None == [ok |-> FALSE, v |-> 0]

Digits == <<"0", "1", "2", "3", "4", "5", "6", "7", "8", "9">>

IsDigit(ch) == \E i \in DOMAIN Digits : Digits[i] = ch

DigitOf(ch) == (CHOOSE i \in DOMAIN Digits : Digits[i] = ch) - 1

\* _NON_NUMERIC_RE = re.compile(r"[^0-9.-]+")
IsNumeric(ch) == IsDigit(ch) \/ ch = "." \/ ch = "-"

HowMany(chars, ch) == Cardinality({i \in DOMAIN chars : chars[i] = ch})

\* Whether float(cleaned) succeeds, for cleaned over 0-9 . and -: an
\* optional sign, then digits with at most one point among them.
IsFloatLiteral(cleaned) ==
    LET body == IF Head(cleaned) = "-" THEN Tail(cleaned) ELSE cleaned
    IN  /\ HowMany(body, "-") = 0
        /\ HowMany(body, ".") <= 1
        /\ \E i \in DOMAIN body : IsDigit(body[i])

\* The digits before the point, read in base ten.
RECURSIVE WholePart(_, _)
WholePart(acc, body) ==
    IF body = <<>> \/ Head(body) = "." THEN acc
    ELSE WholePart(10 * acc + DigitOf(Head(body)), Tail(body))

\* float(cleaned) for a literal whose digits after the point are zeros.
FloatOf(cleaned) ==
    IF Head(cleaned) = "-" THEN 0 - WholePart(0, Tail(cleaned))
    ELSE WholePart(0, cleaned)

\* float(val) raises OverflowError outside the try.
Overflows(val) == val.k = "huge"

parse_float(val) ==
    IF val.k = "none" THEN None
    ELSE IF val.k = "num" THEN [ok |-> TRUE, v |-> val.n]
    ELSE IF val.k = "text"
    THEN LET cleaned == SelectSeq(val.s, IsNumeric)
         IN  IF cleaned = <<>> THEN None
             ELSE IF IsFloatLiteral(cleaned) THEN [ok |-> TRUE, v |-> FloatOf(cleaned)]
             ELSE None
    ELSE None

OrZero(f) == IF f.ok THEN f.v ELSE 0

strip(term) == IF term = " mo " THEN "mo" ELSE term

\* (job.get("Salary Term") or "")
OrEmpty(val) == IF val.k = "text" THEN val.s ELSE ""

\* .strip() on a number other than 0 raises AttributeError.
StripRaises(val) == val.k = "huge" \/ (val.k = "num" /\ val.n # 0)

\* Whether calc_job_rate_and_missing(job) raises.
Raises(job) ==
    \/ Overflows(job.AnnualSalaryRate)
    \/ StripRaises(job.SalaryTerm)
    \/ Overflows(job.ApptPercent)

calc_job_rate_and_missing(job) ==
    LET rate_num == parse_float(job.AnnualSalaryRate)
        term     == strip(OrEmpty(job.SalaryTerm))
        missing  == term = "mo" /\ rate_num.ok /\ rate_num.v > 0 /\ rate_num.v <= 12
    IN  [rate    |-> IF missing THEN 0 ELSE OrZero(rate_num),
         pct     |-> OrZero(parse_float(job.ApptPercent)),
         missing |-> missing]

\* The rate test left out: every job is added.
RECURSIVE SumJobs_all(_, _)
SumJobs_all(total, jobs) ==
    IF jobs = <<>> THEN total
    ELSE LET j == calc_job_rate_and_missing(Head(jobs))
         IN  SumJobs_all(fadd(total, fround(j.rate * j.pct)), Tail(jobs))

\* for job in snapshot.get("Jobs", []): total += rate * (pct / 100.0)
RECURSIVE SumJobs(_, _)
SumJobs(total, jobs) ==
    IF jobs = <<>> THEN total
    ELSE LET j == calc_job_rate_and_missing(Head(jobs))
         IN  SumJobs(IF j.rate > 0 THEN fadd(total, fround(j.rate * j.pct)) ELSE total,
                     Tail(jobs))

calculate_snapshot_pay(snapshot) ==
    IF snapshot.Jobs = <<>> THEN 0 ELSE SumJobs(0, snapshot.Jobs)

\* Whether calculate_snapshot_pay(snapshot) raises.
PayRaises(snapshot) == \E i \in DOMAIN snapshot.Jobs : Raises(snapshot.Jobs[i])

\* ------------------------------------------------------------------ median
Frac(n, d) == [num |-> n, den |-> d]

_median_sorted(vals) ==
    LET n   == Len(vals)
        mid == n \div 2
    IN  IF n = 0 THEN Frac(0, 1)
        ELSE IF n % 2 = 1 THEN Frac(vals[mid + 1], 1)
        ELSE Frac(fadd(vals[mid], vals[mid + 1]), 2)

\* The list is taken as it comes.
median_unsorted(values, presorted) ==
    LET n == Len(values)
    IN  IF n = 0 THEN Frac(0, 1)
        ELSE IF n = 1 THEN Frac(values[1], 1)
        ELSE IF n = 2 THEN Frac(fadd(values[1], values[2]), 2)
        ELSE _median_sorted(values)

median(values, presorted) ==
    LET n == Len(values)
    IN  IF n = 0 THEN Frac(0, 1)
        ELSE IF n = 1 THEN Frac(values[1], 1)
        ELSE IF n = 2 THEN Frac(fadd(values[1], values[2]), 2)
        ELSE _median_sorted(IF presorted THEN values ELSE list_sort(values))

\* ------------------------------------------------------------------ bisect
RECURSIVE BisectLeftLoop(_, _, _, _)
BisectLeftLoop(a, x, lo, hi) ==
    IF lo >= hi THEN lo
    ELSE LET mid == (lo + hi) \div 2
         IN  IF a[mid + 1] < x THEN BisectLeftLoop(a, x, mid + 1, hi)
             ELSE BisectLeftLoop(a, x, lo, mid)

bisect_left(a, x) == BisectLeftLoop(a, x, 0, Len(a))

RECURSIVE BisectRightLoop(_, _, _, _)
BisectRightLoop(a, x, lo, hi) ==
    IF lo >= hi THEN lo
    ELSE LET mid == (lo + hi) \div 2
         IN  IF x < a[mid + 1] THEN BisectRightLoop(a, x, lo, mid)
             ELSE BisectRightLoop(a, x, mid + 1, hi)

bisect_right(a, x) == BisectRightLoop(a, x, 0, Len(a))

\* -------------------------------------------------------------- COLA pairs
\* One event's scan over the dates, in list order.
RECURSIVE ScanDates_overwrite(_, _, _, _)
ScanDates_overwrite(dates, effective, before, after) ==
    IF dates = <<>> THEN [beforeDate |-> before, afterDate |-> after]
    ELSE LET d == Head(dates)
         IN  ScanDates_overwrite(Tail(dates), effective,
                                 IF d <= effective THEN d ELSE before,
                                 IF d >= effective THEN d ELSE after)

RECURSIVE ScanDates_swapped(_, _, _, _)
ScanDates_swapped(dates, effective, before, after) ==
    IF dates = <<>> THEN [beforeDate |-> before, afterDate |-> after]
    ELSE LET d == Head(dates)
         IN  ScanDates_swapped(Tail(dates), effective,
                               IF d >= effective THEN d ELSE before,
                               IF after = NONE /\ d <= effective THEN d ELSE after)

\* A date on the effective date is not taken as beforeDate.
RECURSIVE ScanDates_strict(_, _, _, _)
ScanDates_strict(dates, effective, before, after) ==
    IF dates = <<>> THEN [beforeDate |-> before, afterDate |-> after]
    ELSE LET d == Head(dates)
         IN  ScanDates_strict(Tail(dates), effective,
                              IF d < effective THEN d ELSE before,
                              IF after = NONE /\ d >= effective THEN d ELSE after)

RECURSIVE ScanDates(_, _, _, _)
ScanDates(dates, effective, before, after) ==
    IF dates = <<>> THEN [beforeDate |-> before, afterDate |-> after]
    ELSE LET d == Head(dates)
         IN  ScanDates(Tail(dates), effective,
                       IF d <= effective THEN d ELSE before,
                       IF after = NONE /\ d >= effective THEN d ELSE after)

build_cola_pairs(dates, events) ==
    IF dates = <<>> THEN <<>>
    ELSE [i \in 1..Len(events) |->
            LET r == ScanDates(dates, events[i].effective, NONE, NONE)
            IN  [label      |-> events[i].label,
                 effective  |-> events[i].effective,
                 pct        |-> events[i].pct,
                 beforeDate |-> r.beforeDate,
                 afterDate  |-> r.afterDate]]

\* ---------------------------------------------------------------- timeline
\* timeline.sort(key=lambda s: s.get("Date") or ""): a stable sort.
SortKey(snap) == IF Truthy(snap.Date) THEN snap.Date ELSE EMPTY

RECURSIVE InsertByDate(_, _)
InsertByDate(s, x) ==
    IF s = <<>> THEN <<x>>
    ELSE IF SortKey(x) < SortKey(Head(s)) THEN <<x>> \o s
    ELSE <<Head(s)>> \o InsertByDate(Tail(s), x)

RECURSIVE SortFrom(_, _)
SortFrom(acc, rest) ==
    IF rest = <<>> THEN acc ELSE SortFrom(InsertByDate(acc, Head(rest)), Tail(rest))

timeline_sort(timeline) == SortFrom(<<>>, timeline)

\* "unclass" in (snap.get("Source") or "").lower()
UnclassLabels == {"Unclassified", "UNCLASS staff"}

IsUnclassSource(src) == src \in UnclassLabels

EmptyJob ==
    [AnnualSalaryRate |-> [k |-> "none", n |-> 0], SalaryTerm |-> [k |-> "none", n |-> 0],
     ApptPercent |-> [k |-> "none", n |-> 0], JobOrgn |-> "", JobTitle |-> ""]

OrUnknown(s) == IF s = "" THEN "Unknown" ELSE s

PeerKey(job) == <<OrUnknown(job.JobOrgn), OrUnknown(job.JobTitle)>>

NewStatsRow(date) ==
    [date |-> date, classified |-> 0, unclassified |-> 0, payroll |-> 0,
     payrollClassified |-> 0, payrollUnclassified |-> 0]

NewTransitions(year) == [year |-> year, toUnclassified |-> 0, toClassified |-> 0]

\* The walker's locals at the top of the loop over one employee's timeline.
NewWalk ==
    [prev_is_unclass |-> "None", was_excluded |-> FALSE,
     first_exclusion_date |-> NONE, started_classified |-> "None",
     is_unclass |-> FALSE, snap_by_date_pay |-> <<>>, total_pay |-> 0,
     pay_missing |-> FALSE, is_full_time |-> FALSE]

\* A classified-to-unclassified step of an employee who started classified.
Excludes_any(prev_is_unclass, is_unclass, started_classified) ==
    prev_is_unclass = "False" /\ is_unclass

Excludes(prev_is_unclass, is_unclass, started_classified) ==
    prev_is_unclass = "False" /\ is_unclass /\ started_classified = "True"

\* if date:
HasDate_always(date) == TRUE

HasDate(date) == Truthy(date)

\* One iteration of the loop over the timeline: w the locals, g the shared
\* accumulators, isLast whether idx == len(timeline) - 1.
WalkSnapLocals(w, snap, isLast) ==
    LET date       == snap.Date
        is_unclass == IsUnclassSource(snap.Source)
        started    == IF w.started_classified = "None" THEN B3(~is_unclass)
                      ELSE w.started_classified
        excl       == Excludes(w.prev_is_unclass, is_unclass, started)
        snap_pay   == calculate_snapshot_pay(snap)
        jobs       == snap.Jobs
    IN  [prev_is_unclass      |-> B3(is_unclass),
         was_excluded         |-> w.was_excluded \/ excl,
         first_exclusion_date |-> IF excl /\ ~Truthy(w.first_exclusion_date)
                                  THEN date ELSE w.first_exclusion_date,
         started_classified   |-> started,
         is_unclass           |-> is_unclass,
         snap_by_date_pay     |-> IF HasDate(date) THEN Put(w.snap_by_date_pay, date, snap_pay)
                                  ELSE w.snap_by_date_pay,
         total_pay            |-> IF isLast THEN snap_pay ELSE w.total_pay,
         pay_missing          |-> IF isLast
                                  THEN \E i \in 1..Len(jobs) :
                                          calc_job_rate_and_missing(jobs[i]).missing
                                  ELSE w.pay_missing,
         is_full_time         |-> IF isLast
                                  THEN \E i \in 1..Len(jobs) :
                                          calc_job_rate_and_missing(jobs[i]).pct >= 100
                                  ELSE w.is_full_time]

StatsAdd(row, is_unclass, snap_pay) ==
    IF is_unclass
    THEN [row EXCEPT !.payroll = fadd(@, snap_pay), !.unclassified = @ + 1,
                     !.payrollUnclassified = fadd(@, snap_pay)]
    ELSE [row EXCEPT !.payroll = fadd(@, snap_pay), !.classified = @ + 1,
                     !.payrollClassified = fadd(@, snap_pay)]

\* if prev_is_unclass is not None and is_unclass != prev_is_unclass and date
Transition_first(prev_is_unclass, is_unclass, date) ==
    B3(is_unclass) # prev_is_unclass /\ Truthy(date)

Transition(prev_is_unclass, is_unclass, date) ==
    prev_is_unclass # "None" /\ B3(is_unclass) # prev_is_unclass /\ Truthy(date)

WalkSnapGlobals(w, g, snap) ==
    LET date       == snap.Date
        is_unclass == IsUnclassSource(snap.Source)
        changed    == Transition(w.prev_is_unclass, is_unclass, date)
        year       == date \div 10000
        entry      == Get(g.class_transitions, year, NewTransitions(year))
        snap_pay   == calculate_snapshot_pay(snap)
        jobs       == snap.Jobs
        key        == <<date, PeerKey(jobs[1])>>
    IN  [snapshot_dates    |-> IF HasDate(date) THEN g.snapshot_dates \cup {date}
                               ELSE g.snapshot_dates,
         class_transitions |-> IF changed
                               THEN Put(g.class_transitions, year,
                                        IF is_unclass
                                        THEN [entry EXCEPT !.toUnclassified = @ + 1]
                                        ELSE [entry EXCEPT !.toClassified = @ + 1])
                               ELSE g.class_transitions,
         all_roles         |-> g.all_roles \cup
                               {jobs[i].JobTitle : i \in {j \in 1..Len(jobs) : jobs[j].JobTitle # ""}},
         stats_map         |-> IF HasDate(date)
                               THEN Put(g.stats_map, date,
                                        StatsAdd(Get(g.stats_map, date, NewStatsRow(date)),
                                                 is_unclass, snap_pay))
                               ELSE g.stats_map,
         peer_buckets      |-> IF HasDate(date) /\ jobs # <<>>
                               THEN Put(g.peer_buckets, key,
                                        Append(Get(g.peer_buckets, key, <<>>), snap_pay))
                               ELSE g.peer_buckets]

RECURSIVE WalkTimeline(_, _, _, _)
WalkTimeline(w, g, timeline, idx) ==
    IF idx > Len(timeline) THEN [w |-> w, g |-> g]
    ELSE WalkTimeline(WalkSnapLocals(w, timeline[idx], idx = Len(timeline)),
                      WalkSnapGlobals(w, g, timeline[idx]),
                      timeline, idx + 1)

\* --------------------------------------------------------------- percentile
PctNone == [defined |-> FALSE, num |-> 0, den |-> 1]

PctUnset == [defined |-> FALSE, num |-> 0, den |-> 0]

\* ((below + 0.5 * equal) / len(bucket)) * 100.0
RankFraction_whole(below, equal, n) ==
    [defined |-> TRUE, num |-> (2 * below + equal) * 100, den |-> n]

RankFraction_high(below, equal, n) ==
    [defined |-> TRUE, num |-> (below + equal) * 100, den |-> n]

RankFraction(below, equal, n) ==
    [defined |-> TRUE, num |-> (2 * below + equal) * 100, den |-> 2 * n]

\* not bucket or len(bucket) <= 1 or last_pay <= 0
Unranked_empty(bucket, last_pay) == Len(bucket) = 0 \/ last_pay <= 0

Unranked(bucket, last_pay) == Len(bucket) <= 1 \/ last_pay <= 0

peer_percentile(timeline, buckets) ==
    IF timeline = <<>> THEN PctNone
    ELSE LET last_snap == timeline[Len(timeline)]
             jobs      == last_snap.Jobs
         IN  IF jobs = <<>> THEN PctNone
             ELSE LET key      == <<last_snap.Date, PeerKey(jobs[1])>>
                      last_pay == calculate_snapshot_pay(last_snap)
                      bucket   == Get(buckets, key, <<>>)
                  IN  IF Unranked(bucket, last_pay) THEN PctNone
                      ELSE LET below == bisect_left(bucket, last_pay)
                               equal == bisect_right(bucket, last_pay) - below
                           IN  RankFraction(below, equal, Len(bucket))

\* ---------------------------------------------------------- COLA evaluation
NewCola_default == [received |-> TRUE, checked |-> 0, missed |-> <<>>]

NewCola == [received |-> FALSE, checked |-> 0, missed |-> <<>>]

\* Both dates set and different.
PairValid_set(event) == Truthy(event.beforeDate) /\ Truthy(event.afterDate)

PairValid(event) ==
    /\ Truthy(event.beforeDate) /\ Truthy(event.afterDate)
    /\ event.beforeDate # event.afterDate

\* pct_change >= event["pct"] - COLA_TOLERANCE_PCT for
\* pct_change = ((after_pay - before_pay) / before_pay) * 100.0 and
\* before_pay > 0: both sides times 10 * before_pay.
Meets_plus(before_pay, after_pay, pct) ==
    (after_pay - before_pay) * 1000 >= (pct + COLA_TOLERANCE_PCT) * before_pay

\* The size of the change is compared, whatever its direction.
Meets_abs(before_pay, after_pay, pct) ==
    (IF after_pay >= before_pay THEN after_pay - before_pay ELSE before_pay - after_pay) * 1000
        >= (pct - COLA_TOLERANCE_PCT) * before_pay

Meets(before_pay, after_pay, pct) ==
    (after_pay - before_pay) * 1000 >= (pct - COLA_TOLERANCE_PCT) * before_pay

\* The outcome of one checked pair.
Judge_last(acc, label, ok) ==
    IF ok THEN [acc EXCEPT !.checked = @ + 1, !.received = TRUE]
    ELSE [acc EXCEPT !.checked = @ + 1, !.received = FALSE, !.missed = Append(@, label)]

Judge(acc, label, ok) ==
    IF ok THEN [acc EXCEPT !.checked = @ + 1, !.received = TRUE]
    ELSE [acc EXCEPT !.checked = @ + 1, !.missed = Append(@, label)]

\* if before_pay <= 0: continue
Skipped_negative(before_pay) == before_pay < 0

Skipped(before_pay) == before_pay <= 0

EvalEvent(acc, event, snap_by_date_pay) ==
    LET before_pay == Get(snap_by_date_pay, event.beforeDate, 0)
        after_pay  == Get(snap_by_date_pay, event.afterDate, 0)
    IN  IF ~PairValid(event) THEN acc
        ELSE IF Skipped(before_pay) THEN acc
        ELSE Judge(acc, event.label, Meets(before_pay, after_pay, event.pct))

RECURSIVE EvalPairs(_, _, _, _)
EvalPairs(acc, pairs, i, snap_by_date_pay) ==
    IF i > Len(pairs) THEN acc
    ELSE EvalPairs(EvalEvent(acc, pairs[i], snap_by_date_pay), pairs, i + 1,
                   snap_by_date_pay)

\* if idx.get("_isUnclass")
Exempt_never(idx) == FALSE

Exempt(idx) == idx._isUnclass

cola_status(idx, pairs, snap_by_date_pay) ==
    IF Exempt(idx)
    THEN [idx EXCEPT !._colaReceived = TRUE, !._colaChecked = 0,
                     !._colaMissedLabels = <<>>, !._colaMissing = FALSE]
    ELSE LET r == EvalPairs(NewCola, pairs, 1, snap_by_date_pay)
         IN  [idx EXCEPT !._colaReceived = r.received, !._colaChecked = r.checked,
                         !._colaMissedLabels = r.missed,
                         !._colaMissing = (~r.received /\ r.checked > 0)]

\* -------------------------------------------------------------------- input
Num(n) == [k |-> "num", n |-> n]

Absent == [k |-> "none", n |-> 0]

Huge == [k |-> "huge", n |-> 0]

Text(s) == [k |-> "text", s |-> s]

\* A job as it is in the document; Job is one whose Salary Term is text.
RawJob(rate, term, pct, orgn, title) ==
    [AnnualSalaryRate |-> rate, SalaryTerm |-> term, ApptPercent |-> pct,
     JobOrgn |-> orgn, JobTitle |-> title]

Job(rate, term, pct, orgn, title) == RawJob(rate, Text(term), pct, orgn, title)

Analyst(rate) == Job(Num(rate), "yr", Num(100), "ENG", "Analyst")

Snap(date, source, jobs) == [Date |-> date, Source |-> source, Jobs |-> jobs]

\* Observed dates around the three events: before the first, between the
\* first and the second, between the second and the third, after the third.
PayDates == <<20240301, 20240501, 20241201, 20250701>>

\* What an employee may earn at PayDates[i]: nothing, 2000, or 2000 raised by
\* exactly the percentage of the event that precedes the date.
PayJobsAt(i) ==
    { <<Analyst(0)>>, <<Analyst(2000)>> } \cup
    (IF i = 1 THEN {} ELSE { <<Analyst(2000 + (2000 * COLA_EVENTS[i - 1].pct) \div 1000)>> })

\* The date of the first event, a later date of another year, and no date.
ClassDates == <<NONE, 20240401, 20250115>>

\* Index selections i1 <= i2 <= ... (or, when strict, i1 < i2 < ...) of
\* length n out of from..upto.
RECURSIVE Selections(_, _, _, _)
Selections(from, upto, n, strict) ==
    IF n = 0 THEN {<<>>}
    ELSE UNION {{<<i>> \o rest :
                    rest \in Selections(IF strict THEN i + 1 ELSE i, upto, n - 1, strict)} :
                i \in from..upto}

\* Timelines in date order over ClassDates with either classification at
\* every position, one job paid 2000 throughout.
ClassTimelines ==
    UNION {{[i \in 1..Len(ix) |-> Snap(ClassDates[ix[i]], src[i], <<Analyst(2000)>>)] :
              src \in [1..Len(ix) -> {"Classified", "Unclassified"}]} :
           ix \in UNION {Selections(1, Len(ClassDates), n, FALSE) : n \in 0..MaxSnaps}}

\* Timelines over distinct ascending PayDates with any pay of PayJobsAt at
\* every position; classified throughout, or unclassified at the last
\* snapshot.
PayTimelines ==
    UNION {{[i \in 1..Len(ix) |->
                Snap(PayDates[ix[i]], IF i = Len(ix) THEN last ELSE "Classified", js[i])] :
              js \in {f \in [1..Len(ix) -> UNION {PayJobsAt(i) : i \in 1..Len(PayDates)}] :
                         \A i \in 1..Len(ix) : f[i] \in PayJobsAt(ix[i])},
              last \in {"Classified", "UNCLASS staff"}} :
           ix \in UNION {Selections(1, Len(PayDates), n, TRUE) : n \in 1..MaxSnaps}}

\* Timelines that are not in date order, some with equal dates.
Shuffled ==
    { Snap(NONE, "Unclassified", <<Analyst(2000)>>),
      Snap(20240301, "Classified", <<Analyst(2000)>>),
      Snap(20241201, "Unclassified", <<Analyst(1000)>>),
      Snap(20241201, "Classified", <<Analyst(2000)>>) }

ShuffledTimelines ==
    {t \in [1..3 -> Shuffled] : \A i, j \in 1..3 : i # j => t[i] # t[j]}

PeerTimelines ==
    { << Snap(20240301, "Classified", <<Analyst(2000)>>),
         Snap(20240501, "Classified", <<Analyst(2130)>>),
         Snap(20241201, "Classified",
              <<Job(Num(4000), " mo ", Num(50), "ENG", "Analyst"),
                Job(Num(9), "mo", Num(100), "ENG", "")>>) >>,
      << Snap(20250701, "Unclassified", <<Analyst(2070)>>),
         Snap(20240501, "Classified", <<Job(Num(2040), "yr", Num(100), "ENG", "Professor")>>),
         Snap(20241201, "Classified", <<>>),
         Snap(20250701, "Classified", <<Job(Absent, "", Absent, "", "Analyst")>>) >> }

\* Timelines whose last snapshot has no job.
SparseTimelines ==
    { << Snap(20241201, "Classified", <<>>) >>,
      << Snap(20240501, "Classified", <<Analyst(2000)>>),
         Snap(20241201, "Unclassified", <<>>) >> }

\* Timelines with text, a number where text is expected, or an integer
\* above the largest float in the fields of a job.
MessyTimelines ==
    { << Snap(20240301, "Classified",
              <<RawJob(Text(<<"$", "2", ",", "0", "0", "0">>), Text("yr"),
                       Text(<<"1", "0", "0", "%">>), "ENG", "Analyst")>>),
         Snap(20240501, "Classified",
              <<RawJob(Text(<<"n", "/", "a">>), Num(0), Text(<<"1", ".", "2", ".", "3">>),
                       "ENG", "Analyst"),
                Analyst(2130)>>) >>,
      << Snap(20240301, "Classified", <<Analyst(2000)>>),
         Snap(20240501, "Classified",
              <<RawJob(Num(2130), Num(12), Num(100), "ENG", "Analyst")>>) >>,
      << Snap(20240301, "Classified",
              <<Analyst(2000), RawJob(Huge, Text("yr"), Num(100), "ENG", "Analyst")>>) >> }

\* A timeline whose first two snapshots have no date: classified, then
\* unclassified, then back and out again at dated snapshots.
UndatedTimelines ==
    { << Snap(NONE, "Classified", <<Analyst(2000)>>),
         Snap(NONE, "Unclassified", <<Analyst(2000)>>),
         Snap(20240401, "Classified", <<Analyst(2000)>>),
         Snap(20250115, "Unclassified", <<Analyst(2000)>>) >> }

PersonNames == <<"ann", "bob", "cy", "dee", "eve">>

NumPeople == MaxPeers + 1

\* The source document: the employee at position `at` has the timeline
\* `focus`, the others have the timelines `peers`, in this order.
Document(at, focus, peers) ==
    [i \in 1..NumPeople |->
        [name |-> PersonNames[i],
         Timeline |-> IF i = at THEN focus ELSE peers[IF i < at THEN i ELSE i - 1]]]

\* -------------------------------------------------------------------- state
VARIABLES
    raw_exists,          \* os.path.exists(RAW_PATH)
    raw,                 \* the content of data.json
    data,                \* the loaded document, mutated in place by main
    pc,                  \* position in main
    cur,                 \* position in the loop over data at pc
    fs,                  \* what main has created and written
    index, buckets, snap_pay_map,
    all_roles, snapshot_dates, stats_map, peer_buckets, class_transitions,
    latest_class_date, latest_unclass_date,
    peer_median_map, peer_percentiles, cola_pairs, aggregates,
    prior,               \* the documents written by an earlier run of main
    args,                \* the arguments of a function that is run on its own
    ret                  \* what the functions run on their own have returned

vars ==
    << raw_exists, raw, data, pc, cur, fs, index, buckets, snap_pay_map,
       all_roles, snapshot_dates, stats_map, peer_buckets, class_transitions,
       latest_class_date, latest_unclass_date,
       peer_median_map, peer_percentiles, cola_pairs, aggregates,
       prior, args, ret >>

\* What main never touches.
outside == << prior, args, ret >>

\* Nothing of main has run.
NoRun ==
    /\ data = <<>>
    /\ cur = 1
    /\ index = <<>>
    /\ buckets = <<>>
    /\ snap_pay_map = <<>>
    /\ all_roles = {}
    /\ snapshot_dates = {}
    /\ stats_map = <<>>
    /\ peer_buckets = <<>>
    /\ class_transitions = <<>>
    /\ latest_class_date = EMPTY
    /\ latest_unclass_date = EMPTY
    /\ peer_median_map = <<>>
    /\ peer_percentiles = <<>>
    /\ cola_pairs = <<>>
    /\ aggregates = <<>>

main_state ==
    << raw_exists, raw, data, cur, fs, index, buckets, snap_pay_map,
       all_roles, snapshot_dates, stats_map, peer_buckets, class_transitions,
       latest_class_date, latest_unclass_date,
       peer_median_map, peer_percentiles, cola_pairs, aggregates, prior >>

accumulators ==
    << all_roles, snapshot_dates, stats_map, peer_buckets, class_transitions,
       latest_class_date, latest_unclass_date >>

\* The content of data.json.
SourceDocument ==
    \E at \in {1, NumPeople}, peers \in [1..MaxPeers -> PeerTimelines] :
        \/ \E focus \in ClassTimelines : raw = Document(at, focus, peers)
        \/ \E focus \in PayTimelines : raw = Document(at, focus, peers)
        \/ \E focus \in ShuffledTimelines : raw = Document(at, focus, peers)
        \/ \E focus \in SparseTimelines : raw = Document(at, focus, peers)
        \/ \E focus \in MessyTimelines : raw = Document(at, focus, peers)
        \/ \E focus \in UndatedTimelines : raw = Document(at, focus, peers)

Init ==
    /\ raw_exists \in BOOLEAN
    /\ IF raw_exists THEN SourceDocument ELSE raw = <<>>
    /\ data = <<>>
    /\ pc = "start"
    /\ cur = 1
    /\ fs = [people_dir |-> FALSE, written |-> {}]
    /\ index = <<>>
    /\ buckets = <<>>
    /\ snap_pay_map = <<>>
    /\ all_roles = {}
    /\ snapshot_dates = {}
    /\ stats_map = <<>>
    /\ peer_buckets = <<>>
    /\ class_transitions = <<>>
    /\ latest_class_date = EMPTY
    /\ latest_unclass_date = EMPTY
    /\ peer_median_map = <<>>
    /\ peer_percentiles = <<>>
    /\ cola_pairs = <<>>
    /\ aggregates = <<>>
    /\ prior = <<>>
    /\ args = <<>>
    /\ ret = <<>>

\* ------------------------------------------------------------------ actions
\* The output directory is made before the source is looked for.
MissingSource_late ==
    /\ pc = "start"
    /\ ~raw_exists
    /\ fs' = [fs EXCEPT !.people_dir = TRUE]
    /\ pc' = "aborted"
    /\ UNCHANGED << outside, raw_exists, raw, data, cur, index, buckets, snap_pay_map,
                    accumulators, peer_median_map, peer_percentiles, cola_pairs,
                    aggregates >>

\* if not os.path.exists(RAW_PATH): raise SystemExit
MissingSource ==
    /\ pc = "start"
    /\ ~raw_exists
    /\ pc' = "aborted"
    /\ UNCHANGED << outside, raw_exists, raw, data, cur, fs, index, buckets, snap_pay_map,
                    accumulators, peer_median_map, peer_percentiles, cola_pairs,
                    aggregates >>

\* stats_map = {}, peer_buckets = defaultdict(...), class_transitions = {}
NewAccumulator_kept(old) == old

NewAccumulator(old) == <<>>

\* json.load, os.makedirs(PEOPLE_DIR) and the locals main starts from
Load ==
    /\ pc = "start"
    /\ raw_exists
    /\ data' = raw
    /\ fs' = [fs EXCEPT !.people_dir = TRUE]
    /\ index' = <<>>
    /\ buckets' = <<>>
    /\ snap_pay_map' = <<>>
    /\ all_roles' = {}
    /\ snapshot_dates' = {}
    /\ stats_map' = NewAccumulator(stats_map)
    /\ peer_buckets' = NewAccumulator(peer_buckets)
    /\ class_transitions' = NewAccumulator(class_transitions)
    /\ latest_class_date' = EMPTY
    /\ latest_unclass_date' = EMPTY
    /\ pc' = "walk"
    /\ cur' = 1
    /\ UNCHANGED << outside, raw_exists, raw, peer_median_map, peer_percentiles,
                    cola_pairs, aggregates >>

\* Where the loop over data at `from` goes next.
Advance_break(from, to) == pc' = to /\ cur' = 1

Advance(from, to) ==
    IF cur < Len(data) THEN pc' = from /\ cur' = cur + 1
    ELSE pc' = to /\ cur' = 1

\* was_excluded and is_unclass
Gated_off(was_excluded, is_unclass) == was_excluded

Gated(was_excluded, is_unclass) == was_excluded /\ is_unclass

IndexEntry(timeline, w, last_date, last_job) ==
    [_hasTimeline      |-> timeline # <<>>,
     _lastDate         |-> IF Truthy(last_date) THEN last_date ELSE EMPTY,
     _lastJob          |-> last_job,
     _totalPay         |-> w.total_pay,
     _payMissing       |-> w.pay_missing,
     _isUnclass        |-> w.is_unclass,
     _isFullTime       |-> w.is_full_time,
     _colaReceived     |-> TRUE,
     _colaChecked      |-> 0,
     _colaMissedLabels |-> <<>>,
     _colaMissing      |-> FALSE,
     _wasExcluded      |-> Gated(w.was_excluded, w.is_unclass),
     _exclusionDate    |-> IF Gated(w.was_excluded, w.is_unclass)
                           THEN w.first_exclusion_date ELSE EMPTY,
     _peerPercentile   |-> PctUnset]

\* First pass, one employee: the body of `for name, person in data.items()`.
\* An exception of calculate_snapshot_pay is caught nowhere: the run ends.
WalkRaises(person) == \E i \in DOMAIN person.Timeline : PayRaises(person.Timeline[i])

Failure ==
    /\ pc' = "failed"
    /\ UNCHANGED << cur, data, accumulators, snap_pay_map, index, buckets >>

WalkPerson ==
    /\ pc = "walk"
    /\ cur <= Len(data)
    /\ IF WalkRaises(data[cur]) THEN Failure ELSE
       /\ \E timeline \in {timeline_sort(data[cur].Timeline)} :
          LET name      == data[cur].name
              last_snap == timeline[Len(timeline)]
              last_job  == IF timeline = <<>> \/ last_snap.Jobs = <<>> THEN EmptyJob
                           ELSE last_snap.Jobs[1]
              last_date == IF timeline = <<>> THEN NONE ELSE last_snap.Date
              g0        == [snapshot_dates |-> snapshot_dates,
                            class_transitions |-> class_transitions,
                            all_roles |-> all_roles, stats_map |-> stats_map,
                            peer_buckets |-> peer_buckets]
          IN  \E r \in {WalkTimeline(NewWalk, g0, timeline, 1)} :
              LET w == r.w
                  g == r.g
              IN
              /\ data' = [data EXCEPT ![cur].Timeline = timeline]
              /\ snapshot_dates' = g.snapshot_dates
              /\ class_transitions' = g.class_transitions
              /\ all_roles' = g.all_roles
              /\ stats_map' = g.stats_map
              /\ peer_buckets' = g.peer_buckets
              /\ latest_unclass_date' =
                    IF timeline # <<>> /\ Truthy(last_date) /\ w.is_unclass
                       /\ last_date > latest_unclass_date
                    THEN last_date ELSE latest_unclass_date
              /\ latest_class_date' =
                    IF timeline # <<>> /\ Truthy(last_date) /\ ~w.is_unclass
                       /\ last_date > latest_class_date
                    THEN last_date ELSE latest_class_date
              /\ snap_pay_map' = Put(snap_pay_map, name, w.snap_by_date_pay)
              /\ index' = Put(index, name, IndexEntry(timeline, w, last_date, last_job))
              /\ buckets' = Put(buckets, name,
                                [Timeline       |-> timeline,
                                 _wasExcluded   |-> Gated(w.was_excluded, w.is_unclass),
                                 _exclusionDate |-> IF Gated(w.was_excluded, w.is_unclass)
                                                    THEN w.first_exclusion_date ELSE EMPTY])
       /\ Advance("walk", "medians")
    /\ UNCHANGED << outside, raw_exists, raw, fs, peer_median_map, peer_percentiles,
                    cola_pairs, aggregates >>

\* Build peer medians: every cohort list is sorted in place.
BuildPeerMedians ==
    /\ pc = "medians"
    /\ peer_buckets' = [key \in DOMAIN peer_buckets |-> list_sort(peer_buckets[key])]
    /\ peer_median_map' = [key \in DOMAIN peer_buckets |->
                              median(list_sort(peer_buckets[key]), TRUE)]
    /\ peer_percentiles' = <<>>
    /\ pc' = "percentiles"
    /\ cur' = 1
    /\ UNCHANGED << outside, raw_exists, raw, data, fs, index, buckets, snap_pay_map,
                    all_roles, snapshot_dates, stats_map, class_transitions,
                    latest_class_date, latest_unclass_date, cola_pairs, aggregates >>

\* Per-person peer percentile, one employee.
ComputePercentile ==
    /\ pc = "percentiles"
    /\ cur <= Len(data)
    /\ peer_percentiles' = Put(peer_percentiles, data[cur].name,
                               peer_percentile(data[cur].Timeline, peer_buckets))
    /\ Advance("percentiles", "store")
    /\ UNCHANGED << outside, raw_exists, raw, data, fs, index, buckets, snap_pay_map,
                    accumulators, peer_median_map, cola_pairs, aggregates >>

\* for name, pct in peer_percentiles.items(): index[name]["_peerPercentile"] = ...
StorePercentiles ==
    /\ pc = "store"
    /\ index' = [name \in DOMAIN index |->
                    IF name \in DOMAIN peer_percentiles
                    THEN [index[name] EXCEPT !._peerPercentile = peer_percentiles[name]]
                    ELSE index[name]]
    /\ pc' = "pairs"
    /\ UNCHANGED << outside, raw_exists, raw, data, cur, fs, buckets, snap_pay_map,
                    accumulators, peer_median_map, peer_percentiles, cola_pairs,
                    aggregates >>

\* cola_pairs = build_cola_pairs(sorted(snapshot_dates), COLA_EVENTS)
BuildColaPairs ==
    /\ pc = "pairs"
    /\ cola_pairs' = build_cola_pairs(sorted(snapshot_dates), COLA_EVENTS)
    /\ pc' = "cola"
    /\ cur' = 1
    /\ UNCHANGED << outside, raw_exists, raw, data, fs, index, buckets, snap_pay_map,
                    accumulators, peer_median_map, peer_percentiles, aggregates >>

\* COLA status, one employee.
EvalCola ==
    /\ pc = "cola"
    /\ cur <= Len(data)
    /\ LET name == data[cur].name
       IN  index' = IF name \in DOMAIN index
                    THEN [index EXCEPT ![name] =
                             cola_status(index[name], cola_pairs,
                                         Get(snap_pay_map, name, <<>>))]
                    ELSE index
    /\ Advance("cola", "write")
    /\ UNCHANGED << outside, raw_exists, raw, data, fs, buckets, snap_pay_map, accumulators,
                    peer_median_map, peer_percentiles, cola_pairs, aggregates >>

\* sorted(all_roles): the titles of the documents in ascending order.
Titles == <<"Analyst", "Professor">>

sorted_roles(roles) ==
    LET Has(title) == title \in roles
    IN  SelectSeq(Titles, Has)

\* The aggregates document and the three kinds of output file.
WriteOutputs ==
    /\ pc = "write"
    /\ aggregates' =
          [latestClassDate   |-> latest_class_date,
           latestUnclassDate |-> latest_unclass_date,
           snapshotDates     |-> sorted(snapshot_dates),
           historyStats      |-> [i \in 1..Cardinality(DOMAIN stats_map) |->
                                     stats_map[sorted(DOMAIN stats_map)[i]]],
           classTransitions  |-> [i \in 1..Cardinality(DOMAIN class_transitions) |->
                                     class_transitions[sorted(DOMAIN class_transitions)[i]]],
           peerMedianMap     |-> peer_median_map,
           allRoles          |-> sorted_roles(all_roles)]
    /\ fs' = [fs EXCEPT !.written = {"index", "aggregates", "people"}]
    /\ pc' = "done"
    /\ UNCHANGED << outside, raw_exists, raw, data, cur, index, buckets, snap_pay_map,
                    accumulators, peer_median_map, peer_percentiles, cola_pairs >>

Next ==
    \/ MissingSource
    \/ Load
    \/ WalkPerson
    \/ BuildPeerMedians
    \/ ComputePercentile
    \/ StorePercentiles
    \/ BuildColaPairs
    \/ EvalCola
    \/ WriteOutputs

Spec == Init /\ [][Next]_vars

\* ------------------------------------------------------------- main, twice
\* main is run again on the same data.json once it has written its
\* documents; what the first run wrote is kept for comparison.
Rerun ==
    /\ pc = "done"
    /\ prior = <<>>
    /\ prior' = [index |-> index, aggregates |-> aggregates, buckets |-> buckets]
    /\ pc' = "start"
    /\ UNCHANGED << raw_exists, raw, data, cur, fs, index, buckets, snap_pay_map,
                    accumulators, peer_median_map, peer_percentiles, cola_pairs,
                    aggregates, args, ret >>

NextTwice == Next \/ Rerun

SpecTwice == Init /\ [][NextTwice]_vars

\* ------------------------------------------------- build_cola_pairs alone
\* Every set of observed dates out of dates before, on, between and after
\* the effective dates of the events, handed to build_cola_pairs as main
\* does.
DateUniverse ==
    {20240301, 20240401, 20240501, 20241101, 20241201, 20250601, 20250701}

InitPairs ==
    /\ raw_exists = TRUE
    /\ raw = <<>>
    /\ data = <<>>
    /\ pc = "pairs"
    /\ cur = 1
    /\ fs = [people_dir |-> TRUE, written |-> {}]
    /\ index = <<>>
    /\ buckets = <<>>
    /\ snap_pay_map = <<>>
    /\ all_roles = {}
    /\ snapshot_dates \in SUBSET DateUniverse
    /\ stats_map = <<>>
    /\ peer_buckets = <<>>
    /\ class_transitions = <<>>
    /\ latest_class_date = EMPTY
    /\ latest_unclass_date = EMPTY
    /\ peer_median_map = <<>>
    /\ peer_percentiles = <<>>
    /\ cola_pairs = <<>>
    /\ aggregates = <<>>
    /\ prior = <<>>
    /\ args = <<>>
    /\ ret = <<>>

SpecPairs == InitPairs /\ [][BuildColaPairs]_vars

\* ------------------------------------------- main on sums that are rounded
\* Three employees, each with one of a few timelines of a single date: a
\* cent, a pay at the limit of the significand, and changes of status.
OrderPeople == 3

Cent == Job(Num(1), "yr", Num(1), "ENG", "Analyst")

Large == Job(Num(Pow2(FloatBits - 6)), "yr", Num(64), "ENG", "Analyst")

OrderTimelines ==
    { << Snap(20240301, "Classified", <<Cent>>) >>,
      << Snap(20240301, "Classified", <<Large>>) >>,
      << Snap(20240301, "Unclassified", <<Cent>>) >>,
      << Snap(20240301, "Unclassified", <<Large>>),
         Snap(20240501, "Classified", <<Cent>>) >> }

InitOrder ==
    /\ raw_exists \in BOOLEAN
    /\ IF raw_exists
       THEN \E timelines \in [1..OrderPeople -> OrderTimelines] :
               raw = [i \in 1..OrderPeople |->
                         [name |-> PersonNames[i], Timeline |-> timelines[i]]]
       ELSE raw = <<>>
    /\ pc = "start"
    /\ fs = [people_dir |-> FALSE, written |-> {}]
    /\ NoRun
    /\ prior = <<>>
    /\ args = <<>>
    /\ ret = <<>>

SpecOrder == InitOrder /\ [][Next]_vars

\* ------------------------------------------------------------ median alone
IsSorted(values) == \A i \in 1..(Len(values) - 1) : values[i] <= values[i + 1]

MedianValues == {10, 20, 30, 40}

\* Every list of up to MaxLen values; presorted is passed for sorted lists
\* only, as main passes it.
InitMedian ==
    /\ raw_exists = FALSE
    /\ raw = <<>>
    /\ fs = [people_dir |-> FALSE, written |-> {}]
    /\ NoRun
    /\ prior = <<>>
    /\ pc = "median"
    /\ \E n \in 0..MaxLen, presorted \in BOOLEAN :
          \E values \in [1..n -> MedianValues] :
              /\ presorted => IsSorted(values)
              /\ args = [values |-> values, presorted |-> presorted]
    /\ ret = <<>>

MedianCall ==
    /\ pc = "median"
    /\ ret' = [median |-> median(args.values, args.presorted)]
    /\ pc' = "returned"
    /\ UNCHANGED << main_state, args >>

SpecMedian == InitMedian /\ [][MedianCall]_vars

\* ------------------------------------- the pay of a snapshot, on its own
\* Most jobs of a snapshot handed to calculate_snapshot_pay on its own.
MaxJobs == 2

RateUniverse ==
    { Absent, Huge, Num(0 - 5), Num(12), Num(2000),
      Text(<<"$", "2", ",", "0", "0", "0", ".", "0", "0">>),
      Text(<<"1", "2", "/", "m", "o">>),
      Text(<<"1", ".", "2", ".", "3">>),
      Text(<<"n", "/", "a">>) }

TermUniverse == { Absent, Num(0), Num(12), Text(""), Text("yr"), Text("mo"), Text(" mo ") }

PercentUniverse ==
    { Absent, Num(50), Num(0 - 50), Text(<<"1", "0", "0", "%">>), Text(<<"-">>) }

JobUniverse ==
    { RawJob(rate, term, pct, "ENG", "Analyst") :
        rate \in RateUniverse, term \in TermUniverse, pct \in PercentUniverse }

\* The jobs that follow the first job of a snapshot.
Companions ==
    { Analyst(2000), Job(Num(0 - 5), "yr", Num(50), "ENG", "Analyst"),
      Job(Text(<<"9">>), " mo ", Num(100), "ENG", "Analyst") }

InitPay ==
    /\ raw_exists = FALSE
    /\ raw = <<>>
    /\ fs = [people_dir |-> FALSE, written |-> {}]
    /\ NoRun
    /\ prior = <<>>
    /\ pc = "calc_jobs"
    /\ \E n \in 0..MaxJobs :
          \E jobs \in [1..n -> JobUniverse \cup Companions] :
              /\ \A i \in 2..n : jobs[i] \in Companions
              /\ args = [snapshot |-> Snap(20240301, "Classified", jobs)]
    /\ ret = <<>>

\* calc_job_rate_and_missing(job) for every job of the snapshot
CalcJobs ==
    /\ pc = "calc_jobs"
    /\ ret' = [jobs |-> [i \in DOMAIN args.snapshot.Jobs |->
                            IF Raises(args.snapshot.Jobs[i]) THEN [raised |-> TRUE]
                            ELSE [raised |-> FALSE,
                                  result |-> calc_job_rate_and_missing(args.snapshot.Jobs[i])]]]
    /\ pc' = "pay"
    /\ UNCHANGED << main_state, args >>

\* calculate_snapshot_pay(snapshot)
CalculateSnapshotPay ==
    /\ pc = "pay"
    /\ ret' = [jobs |-> ret.jobs,
               pay  |-> IF PayRaises(args.snapshot) THEN [raised |-> TRUE]
                        ELSE [raised |-> FALSE,
                              result |-> calculate_snapshot_pay(args.snapshot)]]
    /\ pc' = "returned"
    /\ UNCHANGED << main_state, args >>

NextPay == CalcJobs \/ CalculateSnapshotPay

SpecPay == InitPay /\ [][NextPay]_vars

\* ------------------------------------- bench: the stats-map loops on rows
\* A row is (date, is_unclass, snap_pay, peer_key); peer_key "" is None.
Row(date, is_unclass, snap_pay, peer_key) ==
    [date |-> date, is_unclass |-> is_unclass, snap_pay |-> snap_pay,
     peer_key |-> peer_key]

\* if date not in stats_map: stats_map[date] = {...}
CurrentEntry(stats, date) == Get(stats, date, NewStatsRow(date))

\* entry = stats_map[date]; if not entry["date"]: entry["date"] = date
OptimizedEntry_nodate(stats, date) == Get(stats, date, NewStatsRow(EMPTY))

OptimizedEntry(stats, date) ==
    LET entry == Get(stats, date, NewStatsRow(EMPTY))
    IN  IF ~Truthy(entry.date) THEN [entry EXCEPT !.date = date] ELSE entry

\* if peer_key: peer_buckets[date][peer_key].append(snap_pay)
PeersAdd(peers, row) ==
    IF row.peer_key # ""
    THEN Put(peers, <<row.date, row.peer_key>>,
             Append(Get(peers, <<row.date, row.peer_key>>, <<>>), row.snap_pay))
    ELSE peers

RECURSIVE current_stats_only(_, _)
current_stats_only(stats, rows) ==
    IF rows = <<>> THEN stats
    ELSE LET row == Head(rows)
         IN  current_stats_only(
                 Put(stats, row.date,
                     StatsAdd(CurrentEntry(stats, row.date), row.is_unclass, row.snap_pay)),
                 Tail(rows))

RECURSIVE optimized_stats_only(_, _)
optimized_stats_only(stats, rows) ==
    IF rows = <<>> THEN stats
    ELSE LET row == Head(rows)
         IN  optimized_stats_only(
                 Put(stats, row.date,
                     StatsAdd(OptimizedEntry(stats, row.date), row.is_unclass, row.snap_pay)),
                 Tail(rows))

RECURSIVE current_stats_and_peers(_, _, _)
current_stats_and_peers(stats, peers, rows) ==
    IF rows = <<>> THEN [stats_map |-> stats, peer_buckets |-> peers]
    ELSE LET row == Head(rows)
         IN  current_stats_and_peers(
                 Put(stats, row.date,
                     StatsAdd(CurrentEntry(stats, row.date), row.is_unclass, row.snap_pay)),
                 PeersAdd(peers, row),
                 Tail(rows))

RECURSIVE optimized_stats_and_peers(_, _, _)
optimized_stats_and_peers(stats, peers, rows) ==
    IF rows = <<>> THEN [stats_map |-> stats, peer_buckets |-> peers]
    ELSE LET row == Head(rows)
         IN  optimized_stats_and_peers(
                 Put(stats, row.date,
                     StatsAdd(OptimizedEntry(stats, row.date), row.is_unclass, row.snap_pay)),
                 PeersAdd(peers, row),
                 Tail(rows))

peer_bucket_counts(peers) == [key \in DOMAIN peers |-> Len(peers[key])]

\* Rows of two dates and one without, of either status, with and without
\* a peer key.
RowUniverse ==
    { Row(20240301, FALSE, 100, "ENG||Analyst"),
      Row(20240301, TRUE, 250, "ENG||Analyst"),
      Row(20240301, FALSE, 100, ""),
      Row(20240501, TRUE, 100, "ENG||Professor"),
      Row(20240501, FALSE, 250, "ENG||Analyst"),
      Row(NONE, FALSE, 100, "ENG||Analyst") }

InitStats ==
    /\ raw_exists = FALSE
    /\ raw = <<>>
    /\ fs = [people_dir |-> FALSE, written |-> {}]
    /\ NoRun
    /\ prior = <<>>
    /\ pc = "current_stats_only"
    /\ \E n \in 0..MaxRows : \E rows \in [1..n -> RowUniverse] : args = [rows |-> rows]
    /\ ret = <<>>

CurrentStatsOnly ==
    /\ pc = "current_stats_only"
    /\ ret' = Put(ret, "current_stats_only", current_stats_only(<<>>, args.rows))
    /\ pc' = "optimized_stats_only"
    /\ UNCHANGED << main_state, args >>

OptimizedStatsOnly ==
    /\ pc = "optimized_stats_only"
    /\ ret' = Put(ret, "optimized_stats_only", optimized_stats_only(<<>>, args.rows))
    /\ pc' = "current_stats_and_peers"
    /\ UNCHANGED << main_state, args >>

CurrentStatsAndPeers ==
    /\ pc = "current_stats_and_peers"
    /\ ret' = Put(ret, "current_stats_and_peers",
                  current_stats_and_peers(<<>>, <<>>, args.rows))
    /\ pc' = "optimized_stats_and_peers"
    /\ UNCHANGED << main_state, args >>

OptimizedStatsAndPeers ==
    /\ pc = "optimized_stats_and_peers"
    /\ ret' = Put(ret, "optimized_stats_and_peers",
                  optimized_stats_and_peers(<<>>, <<>>, args.rows))
    /\ pc' = "parity"
    /\ UNCHANGED << main_state, args >>

\* The parity check at the end of the bench.
StatsParity ==
    /\ pc = "parity"
    /\ pc' = IF ret["current_stats_and_peers"].stats_map
                   # ret["optimized_stats_and_peers"].stats_map
             THEN "parity_failure_stats"
             ELSE IF peer_bucket_counts(ret["current_stats_and_peers"].peer_buckets)
                       # peer_bucket_counts(ret["optimized_stats_and_peers"].peer_buckets)
             THEN "parity_failure_peers"
             ELSE "parity_ok"
    /\ UNCHANGED << main_state, args, ret >>

NextStats ==
    \/ CurrentStatsOnly
    \/ OptimizedStatsOnly
    \/ CurrentStatsAndPeers
    \/ OptimizedStatsAndPeers
    \/ StatsParity

SpecStats == InitStats /\ [][NextStats]_vars

\* ------------------------------------------- bench: the COLA loops
\* snap_by_date_pay of one sorted timeline, undated snapshots skipped.
RECURSIVE FixturePays(_, _)
FixturePays(pays, timeline) ==
    IF timeline = <<>> THEN pays
    ELSE LET snap == Head(timeline)
         IN  FixturePays(IF Truthy(snap.Date)
                         THEN Put(pays, snap.Date, calculate_snapshot_pay(snap))
                         ELSE pays,
                         Tail(timeline))

\* Pairs with an unset side are left out; so are pairs with equal dates.
cola_eval_pairs_all(pairs) ==
    LET Valid(event) == Truthy(event.beforeDate) /\ Truthy(event.afterDate)
        kept == SelectSeq(pairs, Valid)
    IN  [i \in 1..Len(kept) |->
            [before_date  |-> kept[i].beforeDate,
             after_date   |-> kept[i].afterDate,
             required_pct |-> kept[i].pct - COLA_TOLERANCE_PCT,
             label        |-> kept[i].label]]

cola_eval_pairs(pairs) ==
    LET Valid(event) ==
            /\ Truthy(event.beforeDate) /\ Truthy(event.afterDate)
            /\ event.beforeDate # event.afterDate
        kept == SelectSeq(pairs, Valid)
    IN  [i \in 1..Len(kept) |->
            [before_date  |-> kept[i].beforeDate,
             after_date   |-> kept[i].afterDate,
             required_pct |-> kept[i].pct - COLA_TOLERANCE_PCT,
             label        |-> kept[i].label]]

load_fixture(doc) ==
    LET timelines == [i \in 1..Len(doc) |-> timeline_sort(doc[i].Timeline)]
        names     == {doc[i].name : i \in 1..Len(doc)}
        At(name)  == CHOOSE i \in 1..Len(doc) : doc[i].name = name
        dates     == UNION {{timelines[i][j].Date : j \in 1..Len(timelines[i])} :
                            i \in 1..Len(doc)}
        pairs     == build_cola_pairs(sorted({d \in dates : Truthy(d)}), COLA_EVENTS)
    IN  [data            |-> doc,
         index           |-> [name \in names |->
                                 [_isUnclass |->
                                     /\ timelines[At(name)] # <<>>
                                     /\ IsUnclassSource(
                                            timelines[At(name)][Len(timelines[At(name)])].Source)]],
         snap_pay_map    |-> [name \in names |-> FixturePays(<<>>, timelines[At(name)])],
         cola_pairs      |-> pairs,
         cola_eval_pairs |-> cola_eval_pairs(pairs)]

ColaResult(received, checked, missed) ==
    [received |-> received, checked |-> checked, missed |-> missed,
     isMissing |-> ~received /\ checked > 0]

run_current(doc, idx, pay_map, pairs) ==
    [name \in {doc[i].name : i \in 1..Len(doc)} |->
        IF idx[name]._isUnclass THEN ColaResult(TRUE, 0, <<>>)
        ELSE LET r == EvalPairs(NewCola, pairs, 1, Get(pay_map, name, <<>>))
             IN  ColaResult(r.received, r.checked, r.missed)]

\* One precomputed tuple, for one employee.
OptimizedEvent(acc, t, snap_by_date_pay) ==
    LET before_pay == Get(snap_by_date_pay, t.before_date, 0)
        after_pay  == Get(snap_by_date_pay, t.after_date, 0)
    IN  IF before_pay <= 0 THEN acc
        ELSE IF (after_pay - before_pay) * 1000 >= t.required_pct * before_pay
        THEN [acc EXCEPT !.checked = @ + 1, !.received = TRUE]
        ELSE [acc EXCEPT !.checked = @ + 1, !.missed = Append(@, t.label)]

RECURSIVE OptimizedPairs(_, _, _)
OptimizedPairs(acc, tuples, snap_by_date_pay) ==
    IF tuples = <<>> THEN acc
    ELSE OptimizedPairs(OptimizedEvent(acc, Head(tuples), snap_by_date_pay),
                        Tail(tuples), snap_by_date_pay)

run_optimized(doc, idx, pay_map, tuples) ==
    [name \in {doc[i].name : i \in 1..Len(doc)} |->
        IF idx[name]._isUnclass THEN ColaResult(TRUE, 0, <<>>)
        ELSE LET r == OptimizedPairs(NewCola, tuples, Get(pay_map, name, <<>>))
             IN  ColaResult(r.received, r.checked, r.missed)]

InitColaBench ==
    /\ raw_exists = TRUE
    /\ SourceDocument
    /\ fs = [people_dir |-> FALSE, written |-> {}]
    /\ NoRun
    /\ prior = <<>>
    /\ pc = "load_fixture"
    /\ args = <<>>
    /\ ret = <<>>

\* calculate_snapshot_pay is called for the dated snapshots only.
FixtureRaises(doc) ==
    \E i \in DOMAIN doc : \E j \in DOMAIN doc[i].Timeline :
        Truthy(doc[i].Timeline[j].Date) /\ PayRaises(doc[i].Timeline[j])

LoadFixture ==
    /\ pc = "load_fixture"
    /\ IF FixtureRaises(raw)
       THEN pc' = "failed" /\ args' = args
       ELSE args' = load_fixture(raw) /\ pc' = "run_current"
    /\ UNCHANGED << main_state, ret >>

RunCurrent ==
    /\ pc = "run_current"
    /\ ret' = Put(ret, "run_current",
                  run_current(args.data, args.index, args.snap_pay_map, args.cola_pairs))
    /\ pc' = "run_optimized"
    /\ UNCHANGED << main_state, args >>

RunOptimized ==
    /\ pc = "run_optimized"
    /\ ret' = Put(ret, "run_optimized",
                  run_optimized(args.data, args.index, args.snap_pay_map,
                                args.cola_eval_pairs))
    /\ pc' = "cola_parity"
    /\ UNCHANGED << main_state, args >>

ColaParity ==
    /\ pc = "cola_parity"
    /\ pc' = IF ret["run_current"] # ret["run_optimized"]
             THEN "parity_failure" ELSE "parity_ok"
    /\ UNCHANGED << main_state, args, ret >>

NextColaBench ==
    \/ LoadFixture
    \/ RunCurrent
    \/ RunOptimized
    \/ ColaParity

SpecColaBench == InitColaBench /\ [][NextColaBench]_vars

\* ======================================================================
\* Reference notions, read off the source document `raw` alone.  A set
\* that a formula uses many times is bound once, as in \A D \in {e} : ...
\* ======================================================================
People == 1..Len(raw)

NameOf(i) == raw[i].name

Positions == UNION {{<<i, j>> : j \in 1..Len(raw[i].Timeline)} : i \in People}

SnapAt(p) == raw[p[1]].Timeline[p[2]]

\* The position of the snapshot a stable sort by date puts last, and first.
LastPos(tl) ==
    CHOOSE j \in 1..Len(tl) :
        \A i \in 1..Len(tl) :
            \/ SortKey(tl[i]) < SortKey(tl[j])
            \/ SortKey(tl[i]) = SortKey(tl[j]) /\ i <= j

FirstPos(tl) ==
    CHOOSE j \in 1..Len(tl) :
        \A i \in 1..Len(tl) :
            \/ SortKey(tl[j]) < SortKey(tl[i])
            \/ SortKey(tl[i]) = SortKey(tl[j]) /\ j <= i

HasTimeline(i) == raw[i].Timeline # <<>>

LastOf(i) == <<i, LastPos(raw[i].Timeline)>>

LastSnapOf(i) == SnapAt(LastOf(i))

FirstSnapOf(i) == raw[i].Timeline[FirstPos(raw[i].Timeline)]

FinallyUnclassified(i) == HasTimeline(i) /\ IsUnclassSource(LastSnapOf(i).Source)

FinallyClassified(i) == HasTimeline(i) /\ ~IsUnclassSource(LastSnapOf(i).Source)

ObservedDates == {d \in {SnapAt(p).Date : p \in Positions} : Truthy(d)}

\* The snapshots that belong to a peer cohort, and the cohort of each.
InCohort == {p \in Positions : Truthy(SnapAt(p).Date) /\ SnapAt(p).Jobs # <<>>}

CohortOf(p) == <<SnapAt(p).Date, PeerKey(SnapAt(p).Jobs[1])>>

PayOf(p) == calculate_snapshot_pay(SnapAt(p))

\* One entry <<position, cohort, pay>> for every snapshot of a cohort.
CohortEntries == {<<p, CohortOf(p), PayOf(p)>> : p \in InCohort}

Count(seq, v) == Cardinality({i \in DOMAIN seq : seq[i] = v})

Walked == pc \in {"medians", "percentiles", "store", "pairs", "cola", "write", "done"}

\* ======================================================================
\* C1 -- two phases.  While employees are still being walked no percentile
\* and no COLA result has been computed; from the end of the walk on, every
\* employee has been walked, snapshot_dates is the set of all dates of the
\* document and every peer cohort holds exactly the pay of its members, and
\* neither changes any more.
\* ======================================================================
CohortHolds(values, M) ==
    /\ Len(values) = Cardinality(M)
    /\ \A m \in M : Count(values, m[3]) = Cardinality({q \in M : q[3] = m[3]})

CohortsComplete ==
    \A E \in {CohortEntries} :
        /\ DOMAIN peer_buckets = {e[2] : e \in E}
        /\ \A key \in DOMAIN peer_buckets :
              \A M \in {{e \in E : e[2] = key}} : CohortHolds(peer_buckets[key], M)

NothingFinalised ==
    /\ peer_percentiles = <<>>
    /\ cola_pairs = <<>>
    /\ \A n \in DOMAIN index :
          /\ index[n]._peerPercentile = PctUnset
          /\ index[n]._colaReceived /\ index[n]._colaChecked = 0
          /\ index[n]._colaMissedLabels = <<>> /\ ~index[n]._colaMissing

C1_TwoPhase ==
    /\ pc \in {"start", "walk"} => NothingFinalised
    /\ Walked => /\ DOMAIN index = {NameOf(i) : i \in People}
                 /\ snapshot_dates = ObservedDates
                 /\ CohortsComplete

C1_Witness ==
    /\ pc = "cola" /\ cur = 2
    /\ Cardinality(snapshot_dates) >= 3
    /\ \E key \in DOMAIN peer_buckets : Len(peer_buckets[key]) >= 2
    /\ \E n \in DOMAIN peer_percentiles : peer_percentiles[n].defined

\* ======================================================================
\* C2 -- exclusion gating.  An employee whose last snapshot in date order
\* is classified is reported with _wasExcluded = false and
\* _exclusionDate = "" in the index and in the bucket record.
\* ======================================================================
C2_GatedByLastStatus ==
    \A i \in People :
        (NameOf(i) \in DOMAIN index /\ FinallyClassified(i)) =>
            /\ ~index[NameOf(i)]._wasExcluded
            /\ index[NameOf(i)]._exclusionDate = EMPTY
            /\ ~buckets[NameOf(i)]._wasExcluded
            /\ buckets[NameOf(i)]._exclusionDate = EMPTY

\* classified, unclassified, classified at three dated snapshots
C2_Witness ==
    /\ pc = "done"
    /\ \E i \in People :
          LET tl == buckets[NameOf(i)].Timeline
          IN  /\ Len(tl) = 3
              /\ Truthy(tl[2].Date)
              /\ ~IsUnclassSource(tl[1].Source)
              /\ IsUnclassSource(tl[2].Source)
              /\ ~IsUnclassSource(tl[3].Source)
              /\ FinallyClassified(i)

\* ======================================================================
\* C3 -- startedClassified is the first snapshot's status whatever follows
\* (after every prefix of the walked timeline), and an employee whose first
\* snapshot is unclassified is never reported with _wasExcluded = true.
\* ======================================================================
NoGlobals ==
    [snapshot_dates |-> {}, class_transitions |-> <<>>, all_roles |-> {},
     stats_map |-> <<>>, peer_buckets |-> <<>>]

WalkOf(tl) == WalkTimeline(NewWalk, NoGlobals, tl, 1).w

C3_StartedClassified ==
    \A i \in People :
        (NameOf(i) \in DOMAIN index /\ HasTimeline(i)) =>
            \A first \in {IsUnclassSource(FirstSnapOf(i).Source)} :
                /\ first => /\ ~index[NameOf(i)]._wasExcluded
                            /\ ~buckets[NameOf(i)]._wasExcluded
                /\ pc = "done" =>
                      \A k \in 1..Len(buckets[NameOf(i)].Timeline) :
                          WalkOf(SubSeq(buckets[NameOf(i)].Timeline, 1, k)).started_classified
                              = B3(~first)

\* unclassified, classified, unclassified
C3_Witness ==
    /\ pc = "done"
    /\ \E i \in People :
          LET tl == buckets[NameOf(i)].Timeline
          IN  /\ Len(tl) = 3
              /\ IsUnclassSource(tl[1].Source)
              /\ ~IsUnclassSource(tl[2].Source)
              /\ IsUnclassSource(tl[3].Source)
              /\ IsUnclassSource(FirstSnapOf(i).Source)

\* ======================================================================
\* Reference notions for the COLA claims; D is the set of observed dates.
\* ======================================================================
\* The employee's pay at date d: that of the snapshot dated d that date
\* order puts last, 0.0 when there is none.
RefPay(i, d) ==
    LET at == {j \in 1..Len(raw[i].Timeline) : raw[i].Timeline[j].Date = d}
    IN  IF at = {} \/ ~Truthy(d) THEN 0
        ELSE PayOf(<<i, CHOOSE j \in at : \A k \in at : k <= j>>)

\* Greatest date of D <= the effective date, least date of D >= it.
GreatestUpTo(D, effective) ==
    LET S == {d \in D : d <= effective}
    IN  IF S = {} THEN NONE ELSE CHOOSE d \in S : \A e \in S : e <= d

LeastFrom(D, effective) ==
    LET S == {d \in D : d >= effective}
    IN  IF S = {} THEN NONE ELSE CHOOSE d \in S : \A e \in S : d <= e

\* The pairs of the events, none when there is no date at all.
RefPairsOf(D) ==
    [k \in (IF D = {} THEN {} ELSE 1..Len(COLA_EVENTS)) |->
        [beforeDate |-> GreatestUpTo(D, COLA_EVENTS[k].effective),
         afterDate  |-> LeastFrom(D, COLA_EVENTS[k].effective)]]

RefPairs == CHOOSE P \in {RefPairsOf(D) : D \in {ObservedDates}} : TRUE

RefValid(P, k) ==
    /\ P[k].beforeDate # NONE /\ P[k].afterDate # NONE
    /\ P[k].beforeDate # P[k].afterDate

RefChecked(P, i) == {k \in DOMAIN P : RefValid(P, k) /\ RefPay(i, P[k].beforeDate) > 0}

\* pctChange >= requiredPercent - tolerance
RefPass(P, i, k) ==
    (RefPay(i, P[k].afterDate) - RefPay(i, P[k].beforeDate)) * 1000
        >= (COLA_EVENTS[k].pct - COLA_TOLERANCE_PCT) * RefPay(i, P[k].beforeDate)

RefFailed(P, i, k) == k \in RefChecked(P, i) /\ ~RefPass(P, i, k)

RefExact(P, i, k) ==
    /\ RefValid(P, k)
    /\ RefPay(i, P[k].beforeDate) > 0
    /\ RefPay(i, P[k].afterDate) * 1000
          = RefPay(i, P[k].beforeDate) * (1000 + COLA_EVENTS[k].pct)

RefMissed(P, i) ==
    LET Failed(k) == RefFailed(P, i, k)
        ks == SelectSeq([k \in 1..Len(COLA_EVENTS) |-> k], Failed)
    IN  [j \in 1..Len(ks) |-> COLA_EVENTS[ks[j]].label]

Evaluated == pc \in {"write", "done"}

\* ======================================================================
\* C4 -- an employee whose last snapshot is unclassified has the COLA
\* result received = true, checked = 0, missed = [], isMissing = false,
\* whatever the pay in the timeline and whichever pairs are valid.
\* ======================================================================
C4_UnclassifiedExempt ==
    \A i \in People :
        (NameOf(i) \in DOMAIN index /\ FinallyUnclassified(i)) =>
            LET e == index[NameOf(i)]
            IN  /\ e._colaReceived
                /\ e._colaChecked = 0
                /\ e._colaMissedLabels = <<>>
                /\ ~e._colaMissing

\* an unclassified employee who, were they classified, would have missed
C4_Witness ==
    /\ pc = "done"
    /\ \E P \in {RefPairs} : \E i \in People :
          /\ FinallyUnclassified(i)
          /\ \E k \in DOMAIN P : RefFailed(P, i, k)

\* ======================================================================
\* C5 -- a finally-classified employee whose pay at a valid pair's
\* afterDate is the pay at beforeDate (> 0) raised by exactly the event's
\* percentage has received = true.
\* ======================================================================
C5_ExactRaiseReceived ==
    Evaluated =>
        \A P \in {RefPairs} : \A i \in People : \A k \in DOMAIN P :
            (FinallyClassified(i) /\ RefExact(P, i, k))
                => index[NameOf(i)]._colaReceived

\* an exact raise at the third event, the only pair checked
C5_Witness ==
    /\ pc = "done"
    /\ \E P \in {RefPairs} : \E i \in People :
          /\ FinallyClassified(i)
          /\ RefChecked(P, i) = {3}
          /\ RefExact(P, i, 3)

\* ======================================================================
\* C6 -- for the ascending list of any set of observed dates,
\* build_cola_pairs gives every event the greatest observed date <= its
\* effective date as beforeDate and the least observed date >= it as
\* afterDate, and leaves a side unset exactly when no date qualifies (no
\* pair at all when there is no date).
\* ======================================================================
PairsBuilt == pc \in {"cola", "write", "done"}

C6_Bracketing ==
    PairsBuilt =>
        IF snapshot_dates = {} THEN cola_pairs = <<>>
        ELSE /\ DOMAIN cola_pairs = 1..Len(COLA_EVENTS)
             /\ \A k \in 1..Len(COLA_EVENTS) :
                   /\ cola_pairs[k].beforeDate
                         = GreatestUpTo(snapshot_dates, COLA_EVENTS[k].effective)
                   /\ cola_pairs[k].afterDate
                         = LeastFrom(snapshot_dates, COLA_EVENTS[k].effective)
                   /\ (cola_pairs[k].beforeDate = NONE
                         <=> \A d \in snapshot_dates : d > COLA_EVENTS[k].effective)
                   /\ (cola_pairs[k].afterDate = NONE
                         <=> \A d \in snapshot_dates : d < COLA_EVENTS[k].effective)
                   /\ cola_pairs[k].label = COLA_EVENTS[k].label
                   /\ cola_pairs[k].pct = COLA_EVENTS[k].pct

\* one event without an earlier date, one with two dates before it and one
\* with two dates after it
C6_Witness ==
    /\ pc = "cola"
    /\ cola_pairs # <<>>
    /\ cola_pairs[1].beforeDate = NONE /\ cola_pairs[1].afterDate # NONE
    /\ \E k \in DOMAIN cola_pairs :
          /\ cola_pairs[k].beforeDate # NONE
          /\ \E d \in snapshot_dates : d < cola_pairs[k].beforeDate
    /\ \E k \in DOMAIN cola_pairs :
          /\ cola_pairs[k].afterDate # NONE
          /\ \E d \in snapshot_dates : d > cola_pairs[k].afterDate

\* ======================================================================
\* C7 -- no pair with both sides set has afterDate < beforeDate.
\* ======================================================================
C7_NoInvertedPair ==
    \A k \in DOMAIN cola_pairs :
        (cola_pairs[k].beforeDate # NONE /\ cola_pairs[k].afterDate # NONE) =>
            cola_pairs[k].beforeDate <= cola_pairs[k].afterDate

C7_Witness ==
    /\ pc = "cola"
    /\ \E k \in DOMAIN cola_pairs :
          /\ cola_pairs[k].beforeDate # NONE /\ cola_pairs[k].afterDate # NONE
          /\ cola_pairs[k].beforeDate < cola_pairs[k].afterDate
    /\ \E k \in DOMAIN cola_pairs :
          /\ cola_pairs[k].beforeDate # NONE
          /\ cola_pairs[k].beforeDate = cola_pairs[k].afterDate

\* ======================================================================
\* C8 -- a pair with an unset side or with beforeDate = afterDate is
\* skipped for every employee: evaluating it leaves checked, missed and
\* received as they were, its label is in no missed list, and no more
\* pairs are counted in checked than are valid.
\* ======================================================================
Unusable(pair) ==
    \/ pair.beforeDate = NONE
    \/ pair.afterDate = NONE
    \/ pair.beforeDate = pair.afterDate

C8_InvalidPairSkipped ==
    PairsBuilt =>
        \A i \in People :
            LET pays == snap_pay_map[NameOf(i)]
                e    == index[NameOf(i)]
            IN  /\ \A k \in DOMAIN cola_pairs :
                      Unusable(cola_pairs[k]) =>
                          /\ EvalPairs(NewCola, SubSeq(cola_pairs, 1, k), 1, pays)
                                = EvalPairs(NewCola, SubSeq(cola_pairs, 1, k - 1), 1, pays)
                          /\ Count(e._colaMissedLabels, cola_pairs[k].label) = 0
                /\ e._colaChecked
                      <= Cardinality({k \in DOMAIN cola_pairs : ~Unusable(cola_pairs[k])})
                /\ (Evaluated /\ \A k \in DOMAIN cola_pairs : Unusable(cola_pairs[k]))
                      => (e._colaChecked = 0 /\ (e._colaReceived <=> e._isUnclass))

\* a paid, finally-classified employee, one pair with equal dates and one
\* with an unset side
C8_Witness ==
    /\ pc = "done"
    /\ \E i \in People : \E k, m \in DOMAIN cola_pairs :
          /\ FinallyClassified(i)
          /\ cola_pairs[k].beforeDate # NONE
          /\ cola_pairs[k].beforeDate = cola_pairs[k].afterDate
          /\ RefPay(i, cola_pairs[k].beforeDate) > 0
          /\ cola_pairs[m].afterDate = NONE
          /\ RefPay(i, cola_pairs[m].beforeDate) > 0

\* ======================================================================
\* C9 -- for an employee who is not finally unclassified: checked is the
\* number of valid pairs with pay > 0 at beforeDate, received holds iff
\* one of them meets requiredPercent - tolerance, missed lists the labels
\* of the others in event order, isMissing = (not received and checked > 0).
\* ======================================================================
C9_ColaResult ==
    Evaluated =>
        \A P \in {RefPairs} : \A i \in People :
            ~FinallyUnclassified(i) =>
                \A checked \in {RefChecked(P, i)} :
                    LET e == index[NameOf(i)]
                    IN  /\ e._colaChecked = Cardinality(checked)
                        /\ e._colaReceived <=> \E k \in checked : RefPass(P, i, k)
                        /\ e._colaMissedLabels = RefMissed(P, i)
                        /\ e._colaMissing <=> (~e._colaReceived /\ e._colaChecked > 0)

\* a success at the first event followed by failures at the other two
C9_Witness ==
    /\ pc = "done"
    /\ \E P \in {RefPairs} : \E i \in People :
          /\ FinallyClassified(i)
          /\ RefChecked(P, i) = {1, 2, 3}
          /\ RefPass(P, i, 1) /\ ~RefPass(P, i, 2) /\ ~RefPass(P, i, 3)
          /\ index[NameOf(i)]._colaMissedLabels = <<"2% COLA", "3.5% COLA">>

\* ======================================================================
\* C10 -- a defined percentile is (number of cohort values below the
\* employee's last pay + half the number equal to it) / cohort size * 100
\* over the cohort of the last snapshot's date, organisation and title;
\* employees of one cohort with equal last pay receive equal percentiles.
\* ======================================================================
Defined(i) ==
    /\ NameOf(i) \in DOMAIN peer_percentiles
    /\ peer_percentiles[NameOf(i)].defined

C10_PercentileFormula ==
    \A E \in {IF peer_percentiles = <<>> THEN {} ELSE CohortEntries} :
        \A last \in {[i \in {p \in People : Defined(p)} |-> LastOf(i)]} :
            /\ \A i \in DOMAIN last :
                  \A M \in {{e \in E : e[2] = CohortOf(last[i])}} :
                      LET pp    == peer_percentiles[NameOf(i)]
                          own   == PayOf(last[i])
                          below == Cardinality({m \in M : m[3] < own})
                          equal == Cardinality({m \in M : m[3] = own})
                      IN  /\ pp.den > 0
                          /\ pp.num * 2 * Cardinality(M)
                                = (2 * below + equal) * 100 * pp.den
                          /\ PairsBuilt => index[NameOf(i)]._peerPercentile = pp
            /\ \A i, j \in DOMAIN last :
                  ( /\ CohortOf(last[i]) = CohortOf(last[j])
                    /\ PayOf(last[i]) = PayOf(last[j]) )
                  => peer_percentiles[NameOf(i)].num * peer_percentiles[NameOf(j)].den
                        = peer_percentiles[NameOf(j)].num * peer_percentiles[NameOf(i)].den

\* two employees tied in one cohort, with a third value below them
C10_Witness ==
    /\ pc = "done"
    /\ \E i, j \in People :
          /\ i # j /\ Defined(i) /\ Defined(j)
          /\ CohortOf(LastOf(i)) = CohortOf(LastOf(j))
          /\ PayOf(LastOf(i)) = PayOf(LastOf(j))
          /\ \E e \in CohortEntries :
                e[2] = CohortOf(LastOf(i)) /\ e[3] < PayOf(LastOf(i))

\* ======================================================================
\* C11 -- every percentile that is reported (not null), in peer_percentiles
\* and in the index, lies in [0, 100]; it is reported for cohorts of more
\* than one value only.
\* ======================================================================
InRange(pp) == pp.den > 0 /\ 0 <= pp.num /\ pp.num <= 100 * pp.den

C11_PercentileInRange ==
    /\ \A n \in DOMAIN peer_percentiles :
          peer_percentiles[n].defined => InRange(peer_percentiles[n])
    /\ \A n \in DOMAIN index :
          index[n]._peerPercentile.defined => InRange(index[n]._peerPercentile)
    /\ \A i \in People :
          Defined(i) => Len(peer_buckets[CohortOf(LastOf(i))]) > 1

\* the highest value of a cohort of two, reported at 75
C11_Witness ==
    /\ pc = "done"
    /\ \E i \in People :
          /\ Defined(i)
          /\ Len(peer_buckets[CohortOf(LastOf(i))]) = 2
          /\ index[NameOf(i)]._peerPercentile.num
                = 75 * index[NameOf(i)]._peerPercentile.den

\* ======================================================================
\* C12 -- an employee's _peerPercentile is null exactly when the employee
\* has no timeline, or the last snapshot has no jobs or no date, or the pay
\* of the last snapshot is <= 0, or the cohort of the last snapshot holds
\* at most one pay value; it is not null in every other case.
\* ======================================================================
CohortSize(p) == Cardinality({q \in InCohort : CohortOf(q) = CohortOf(p)})

NoPercentile(i) ==
    \/ ~HasTimeline(i)
    \/ \E s \in {LastSnapOf(i)} :
          \/ s.Jobs = <<>>
          \/ ~Truthy(s.Date)
          \/ calculate_snapshot_pay(s) <= 0
          \/ \E key \in {PeerKey(s.Jobs[1])} :
                Cardinality({q \in Positions :
                                /\ SnapAt(q).Date = s.Date
                                /\ SnapAt(q).Jobs # <<>>
                                /\ PeerKey(SnapAt(q).Jobs[1]) = key}) <= 1

C12_NullPercentile ==
    \A i \in People :
        /\ NameOf(i) \in DOMAIN peer_percentiles =>
              \A none \in {NoPercentile(i)} :
                  /\ peer_percentiles[NameOf(i)].defined <=> ~none
                  /\ none => peer_percentiles[NameOf(i)] = PctNone
                  /\ PairsBuilt =>
                        index[NameOf(i)]._peerPercentile = peer_percentiles[NameOf(i)]

\* an employee whose last snapshot has a date and jobs, alone in the cohort
\* with pay or in a cohort of two without pay, reported null, next to an
\* employee with a percentile
C12_Witness ==
    /\ pc = "done"
    /\ \E i \in People :
          /\ HasTimeline(i) /\ LastSnapOf(i).Jobs # <<>> /\ Truthy(LastSnapOf(i).Date)
          /\ \/ PayOf(LastOf(i)) > 0 /\ CohortSize(LastOf(i)) = 1
             \/ PayOf(LastOf(i)) = 0 /\ CohortSize(LastOf(i)) = 2
          /\ index[NameOf(i)]._peerPercentile = PctNone
    /\ \E i \in People : index[NameOf(i)]._peerPercentile.defined

\* ======================================================================
\* C13 -- median returns 0.0 for an empty list, the sole value of a list
\* of one, the middle element of the sorted list for an odd length and the
\* average of the two central elements of the sorted list for an even
\* length; with presorted = False every permutation of the list has the
\* same median.
\* ======================================================================
SameValue(f, g) == f.den # 0 /\ g.den # 0 /\ f.num * g.den = g.num * f.den

Occurrences(values, v) == Cardinality({i \in DOMAIN values : values[i] = v})

\* The values in ascending order: the one rearrangement that is sorted.
Ascending(values) ==
    CHOOSE s \in [1..Len(values) -> {values[i] : i \in DOMAIN values}] :
        /\ IsSorted(s)
        /\ \A i \in DOMAIN values : Occurrences(s, values[i]) = Occurrences(values, values[i])

Rearrangements(values) ==
    {[i \in DOMAIN values |-> values[q[i]]] :
        q \in {f \in [DOMAIN values -> DOMAIN values] :
                  \A i, j \in DOMAIN values : i # j => f[i] # f[j]}}

C13_Median ==
    pc = "returned" =>
        \A s \in {Ascending(args.values)} :
            LET n == Len(s)
            IN  /\ n = 0 => ret.median = Frac(0, 1)
                /\ n = 1 => ret.median = Frac(args.values[1], 1)
                /\ (n > 0 /\ n % 2 = 1) => SameValue(ret.median, Frac(s[(n + 1) \div 2], 1))
                /\ (n > 0 /\ n % 2 = 0) =>
                      SameValue(ret.median, Frac(s[n \div 2] + s[n \div 2 + 1], 2))
                /\ ~args.presorted =>
                      \A other \in Rearrangements(args.values) :
                          SameValue(median(other, FALSE), ret.median)

\* median([40, 10, 30, 20]) = 25
C13_Witness ==
    /\ pc = "returned"
    /\ args = [values |-> <<40, 10, 30, 20>>, presorted |-> FALSE]
    /\ SameValue(ret.median, Frac(25, 1))

\* ======================================================================
\* C14 -- for every sequence of rows the stats map of the loop that
\* initialises a row explicitly equals that of the loop that takes a
\* default row on access, the cohort sizes of the two are equal, and stats
\* computed alone equal stats computed together with the cohorts.
\* ======================================================================
Returned(fn) == fn \in DOMAIN ret

C14_StatsParity ==
    /\ pc \notin {"parity_failure_stats", "parity_failure_peers"}
    /\ (Returned("current_stats_only") /\ Returned("optimized_stats_only")) =>
          ret["current_stats_only"] = ret["optimized_stats_only"]
    /\ (Returned("current_stats_only") /\ Returned("current_stats_and_peers")) =>
          ret["current_stats_and_peers"].stats_map = ret["current_stats_only"]
    /\ (Returned("current_stats_and_peers") /\ Returned("optimized_stats_and_peers")) =>
          /\ ret["optimized_stats_and_peers"].stats_map
                = ret["current_stats_and_peers"].stats_map
          /\ ret["optimized_stats_and_peers"].stats_map = ret["optimized_stats_only"]
          /\ peer_bucket_counts(ret["optimized_stats_and_peers"].peer_buckets)
                = peer_bucket_counts(ret["current_stats_and_peers"].peer_buckets)

\* three rows: two of one date and cohort, one without a peer key
C14_Witness ==
    /\ pc = "parity_ok"
    /\ Len(args.rows) = 3
    /\ \E i \in 1..3 : args.rows[i].peer_key = ""
    /\ \E date \in DOMAIN ret["optimized_stats_and_peers"].stats_map :
          LET row == ret["optimized_stats_and_peers"].stats_map[date]
          IN  row.date = date /\ Truthy(date) /\ row.classified = 2 /\ row.unclassified = 1
    /\ \E key \in DOMAIN ret["optimized_stats_and_peers"].peer_buckets :
          Len(ret["optimized_stats_and_peers"].peer_buckets[key]) = 2

\* ======================================================================
\* C15 -- for every dataset the evaluation that validates every pair for
\* every employee (run_current) and the evaluation over the precomputed
\* tuples of the valid pairs (run_optimized) return the same (received,
\* checked, missed, isMissing) for every employee.
\* ======================================================================
C15_ColaParity ==
    /\ pc # "parity_failure"
    /\ (Returned("run_current") /\ Returned("run_optimized")) =>
          /\ DOMAIN ret["run_optimized"] = {NameOf(i) : i \in People}
          /\ \A n \in DOMAIN ret["run_optimized"] :
                ret["run_optimized"][n] = ret["run_current"][n]

\* a pair with equal dates and a pair with an unset side left out of the
\* tuples, one employee who missed an event and one who is exempt
C15_Witness ==
    /\ pc = "parity_ok"
    /\ \E k, m \in DOMAIN args.cola_pairs :
          /\ args.cola_pairs[k].beforeDate # NONE
          /\ args.cola_pairs[k].beforeDate = args.cola_pairs[k].afterDate
          /\ args.cola_pairs[m].afterDate = NONE
    /\ Len(args.cola_eval_pairs) = 1
    /\ \E n \in DOMAIN ret["run_optimized"] :
          ret["run_optimized"][n].isMissing /\ ret["run_optimized"][n].checked = 1
    /\ \E n \in DOMAIN ret["run_optimized"] : args.index[n]._isUnclass

RECURSIVE WalkPeople(_, _, _)
WalkPeople(g, doc, i) ==
    IF i > Len(doc) THEN g
    ELSE WalkPeople(WalkTimeline(NewWalk, g, timeline_sort(doc[i].Timeline), 1).g,
                    doc, i + 1)

SortedCohorts(cohorts) == [key \in DOMAIN cohorts |-> list_sort(cohorts[key])]

Orders(n) == {f \in [1..n -> 1..n] : \A i, j \in 1..n : i # j => f[i] # f[j]}

\* The members of the set S of positions of doc, in the order of doc.
Part(doc, S) ==
    LET In(i) == i \in S
        ix == SelectSeq([i \in 1..Len(doc) |-> i], In)
    IN  [k \in 1..Len(ix) |-> doc[ix[k]]]

MergeRows(a, b) ==
    [date |-> a.date,
     classified |-> a.classified + b.classified,
     unclassified |-> a.unclassified + b.unclassified,
     payroll |-> fadd(a.payroll, b.payroll),
     payrollClassified |-> fadd(a.payrollClassified, b.payrollClassified),
     payrollUnclassified |-> fadd(a.payrollUnclassified, b.payrollUnclassified)]

MergeTransitions(a, b) ==
    [year |-> a.year,
     toUnclassified |-> a.toUnclassified + b.toUnclassified,
     toClassified |-> a.toClassified + b.toClassified]

Merge(g, h) ==
    [stats_map |->
        [d \in DOMAIN g.stats_map \cup DOMAIN h.stats_map |->
            MergeRows(Get(g.stats_map, d, NewStatsRow(d)), Get(h.stats_map, d, NewStatsRow(d)))],
     class_transitions |->
        [y \in DOMAIN g.class_transitions \cup DOMAIN h.class_transitions |->
            MergeTransitions(Get(g.class_transitions, y, NewTransitions(y)),
                             Get(h.class_transitions, y, NewTransitions(y)))],
     peer_buckets |->
        [key \in DOMAIN g.peer_buckets \cup DOMAIN h.peer_buckets |->
            Get(g.peer_buckets, key, <<>>) \o Get(h.peer_buckets, key, <<>>)]]

\* g gives what the run has in stats_map, class_transitions and peer_buckets.
SameFirstPass(g) ==
    /\ g.stats_map = stats_map
    /\ g.class_transitions = class_transitions
    /\ SortedCohorts(g.peer_buckets) = peer_buckets

C17_OrderIndependent ==
    pc = "percentiles" =>
        /\ \A order \in Orders(Len(raw)) :
              SameFirstPass(WalkPeople(NoGlobals, [i \in 1..Len(raw) |-> raw[order[i]]], 1))
        /\ \A S \in SUBSET (1..Len(raw)) :
              SameFirstPass(Merge(WalkPeople(NoGlobals, Part(raw, S), 1),
                                  WalkPeople(NoGlobals, Part(raw, (1..Len(raw)) \ S), 1)))

\* ======================================================================
\* C18 -- the run never mutates the source data: after the run every
\* employee's Timeline in the loaded mapping has the same snapshots in the
\* same order as when it was loaded, and no snapshot or job has changed.
\* ======================================================================
C18_SourceUnchanged == pc = "done" => data = raw

\* ======================================================================
\* C19 -- a snapshot without a date adds nothing to snapshot_dates, to a
\* stats row, to a peer cohort or to the employee's pay-by-date map: after
\* the first pass these are what they are for the document without its
\* undated snapshots.  It still counts for the status: the employee's final
\* status and total pay are those of the last snapshot, dated or not, an
\* exclusion is detected from the first and the last snapshot, dated or
\* not, and a dated snapshot is counted as a transition when its status
\* differs from that of the snapshot before it, dated or not.
\* ======================================================================
IsDated(snap) == Truthy(snap.Date)

DatedOnly(doc) ==
    [i \in 1..Len(doc) |-> [doc[i] EXCEPT !.Timeline = SelectSeq(@, IsDated)]]

\* The transitions counted for one timeline in date order.
Steps(tl, year, to_unclass) ==
    Cardinality({j \in 2..Len(tl) :
                    /\ Truthy(tl[j].Date)
                    /\ tl[j].Date \div 10000 = year
                    /\ IsUnclassSource(tl[j].Source) = to_unclass
                    /\ IsUnclassSource(tl[j - 1].Source) # to_unclass})

RECURSIVE SumOver(_, _)
SumOver(f, S) ==
    IF S = {} THEN 0 ELSE LET x == CHOOSE y \in S : TRUE IN f[x] + SumOver(f, S \ {x})

\* tls: the timelines of the employees in date order.
RefTransitions(tls, year) ==
    [year |-> year,
     toUnclassified |-> SumOver([i \in People |-> Steps(tls[i], year, TRUE)], People),
     toClassified   |-> SumOver([i \in People |-> Steps(tls[i], year, FALSE)], People)]

RefYears(tls) ==
    {y \in {d \div 10000 : d \in ObservedDates} :
        \E i \in People : Steps(tls[i], y, TRUE) + Steps(tls[i], y, FALSE) > 0}

NoUndatedKey ==
    /\ \A d \in snapshot_dates : Truthy(d)
    /\ \A d \in DOMAIN stats_map : Truthy(d)
    /\ \A key \in DOMAIN peer_buckets : Truthy(key[1])
    /\ \A n \in DOMAIN snap_pay_map : \A d \in DOMAIN snap_pay_map[n] : Truthy(d)

C19_UndatedSnapshots ==
    /\ NoUndatedKey
    /\ pc = "medians" =>
          /\ \A g \in {WalkPeople(NoGlobals, DatedOnly(raw), 1)} :
                /\ snapshot_dates = g.snapshot_dates
                /\ stats_map = g.stats_map
                /\ peer_buckets = g.peer_buckets
          /\ \A tls \in {[i \in People |-> timeline_sort(raw[i].Timeline)]} :
                class_transitions = [y \in RefYears(tls) |-> RefTransitions(tls, y)]
          /\ \A i \in People :
                /\ snap_pay_map[NameOf(i)]
                      = [d \in {d \in {raw[i].Timeline[j].Date : j \in 1..Len(raw[i].Timeline)} :
                                   Truthy(d)} |-> RefPay(i, d)]
                /\ HasTimeline(i) =>
                      /\ index[NameOf(i)]._isUnclass = IsUnclassSource(LastSnapOf(i).Source)
                      /\ index[NameOf(i)]._totalPay = PayOf(LastOf(i))
                      /\ index[NameOf(i)]._wasExcluded
                            = (~IsUnclassSource(FirstSnapOf(i).Source)
                               /\ IsUnclassSource(LastSnapOf(i).Source))

\* an undated classified snapshot before two dated unclassified ones: the
\* move out of the classified service is detected and counted at the first
\* dated snapshot, and only the dated snapshots are in the pay map
C19_Witness ==
    /\ pc = "medians"
    /\ \E i \in People :
          LET tl == raw[i].Timeline
          IN  /\ Len(tl) = 3
              /\ ~Truthy(tl[1].Date) /\ Truthy(tl[2].Date) /\ Truthy(tl[3].Date)
              /\ tl[2].Date # tl[3].Date
              /\ ~IsUnclassSource(tl[1].Source) /\ IsUnclassSource(tl[2].Source)
              /\ IsUnclassSource(tl[3].Source)
              /\ index[NameOf(i)]._wasExcluded
              /\ index[NameOf(i)]._exclusionDate = tl[2].Date
              /\ class_transitions[tl[2].Date \div 10000].toUnclassified >= 1
              /\ DOMAIN snap_pay_map[NameOf(i)] = {tl[2].Date, tl[3].Date}

\* ======================================================================
\* C20 -- when the source document is missing the run aborts before any
\* output: no output directory is made and no index, aggregates or bucket
\* document is written.
\* ======================================================================
C20_MissingSourceAborts ==
    ~raw_exists =>
        /\ pc \in {"start", "aborted"}
        /\ ~fs.people_dir
        /\ fs.written = {}
        /\ index = <<>> /\ aggregates = <<>> /\ buckets = <<>>

C20_Witness == pc = "aborted" /\ ~raw_exists /\ ~fs.people_dir /\ fs.written = {}

\* ======================================================================
\* C21 -- whatever a job's Annual Salary Rate, Salary Term and Appt Percent
\* are (absent, null, a number or text), computing the pay never raises:
\* a rate or percent that cannot be parsed counts as 0 and the pay of the
\* snapshot is that of the remaining jobs.
\* ======================================================================
C21_ParsingNeverFails ==
    pc = "returned" =>
        /\ ~ret.pay.raised
        /\ \A i \in DOMAIN ret.jobs : ~ret.jobs[i].raised

\* ======================================================================
\* C22 -- calculate_snapshot_pay returns the sum over the jobs, in their
\* order, of rate * (percent / 100) for the jobs whose effective rate is
\* above 0 and of 0 for the others; the effective rate of a job with term
\* "mo" and 0 < rate <= 12 is 0 and that job is flagged missing, and no
\* other job is; a snapshot with no jobs pays 0.
\* ======================================================================
Monthly(job) ==
    /\ job.SalaryTerm.k = "text"
    /\ job.SalaryTerm.s \in {"mo", " mo "}
    /\ parse_float(job.AnnualSalaryRate).ok
    /\ 0 < parse_float(job.AnnualSalaryRate).v
    /\ parse_float(job.AnnualSalaryRate).v <= 12

EffectiveRate(job) ==
    IF Monthly(job) \/ ~parse_float(job.AnnualSalaryRate).ok THEN 0
    ELSE parse_float(job.AnnualSalaryRate).v

Share(job) ==
    IF EffectiveRate(job) > 0 /\ parse_float(job.ApptPercent).ok
    THEN EffectiveRate(job) * parse_float(job.ApptPercent).v
    ELSE 0

RECURSIVE RefTotal(_, _)
RefTotal(jobs, n) == IF n = 0 THEN 0 ELSE fadd(RefTotal(jobs, n - 1), fround(Share(jobs[n])))

C22_SnapshotPay ==
    pc = "returned" /\ ~ret.pay.raised =>
        /\ ret.pay.result = RefTotal(args.snapshot.Jobs, Len(args.snapshot.Jobs))
        /\ \A i \in DOMAIN ret.jobs :
              /\ ret.jobs[i].result.missing <=> Monthly(args.snapshot.Jobs[i])
              /\ ret.jobs[i].result.rate = EffectiveRate(args.snapshot.Jobs[i])

\* a monthly job of rate 12 with a percent, flagged missing and paying
\* nothing, beside a job that pays 2000 at 100 percent
C22_Witness ==
    /\ pc = "returned"
    /\ ~ret.pay.raised
    /\ Len(args.snapshot.Jobs) = 2
    /\ ret.jobs[1].result.missing
    /\ parse_float(args.snapshot.Jobs[1].ApptPercent).v > 0
    /\ ret.jobs[2].result.rate = 2000
    /\ ret.pay.result = 200000

\* ======================================================================
\* C23 -- for an employee who started classified, first_exclusion_date
\* after the walk is the date of the earliest snapshot that is
\* unclassified right after a classified one; no later such snapshot
\* changes it.  (The date is read in the index of the employees whose last
\* snapshot is unclassified, where it is reported.)
\* ======================================================================
StepsDown(tl) ==
    {j \in 2..Len(tl) :
        ~IsUnclassSource(tl[j - 1].Source) /\ IsUnclassSource(tl[j].Source)}

C23_FirstExclusionDate ==
    \A n \in DOMAIN index :
        \A tl \in {buckets[n].Timeline} :
            /\ tl # <<>>
            /\ ~IsUnclassSource(tl[1].Source)
            /\ IsUnclassSource(tl[Len(tl)].Source)
            => /\ index[n]._wasExcluded
               /\ index[n]._exclusionDate = tl[Min(StepsDown(tl))].Date

\* ======================================================================
\* C24 -- in the evaluation of one employee a valid pair at whose
\* beforeDate the employee has no pay or a pay <= 0 is skipped: evaluating
\* it leaves checked, missed and received as they were, its label is in no
\* missed list, and an employee for whom every valid pair is such a pair
\* ends with checked = 0, received = false and missed = [].
\* ======================================================================
NoBasePay(i, pair) == ~Unusable(pair) /\ RefPay(i, pair.beforeDate) <= 0

C24_NoBasePaySkipped ==
    PairsBuilt =>
        \A i \in People :
            LET pays == snap_pay_map[NameOf(i)]
                e    == index[NameOf(i)]
            IN  /\ \A k \in DOMAIN cola_pairs :
                      NoBasePay(i, cola_pairs[k]) =>
                          /\ EvalPairs(NewCola, SubSeq(cola_pairs, 1, k), 1, pays)
                                = EvalPairs(NewCola, SubSeq(cola_pairs, 1, k - 1), 1, pays)
                          /\ Count(e._colaMissedLabels, cola_pairs[k].label) = 0
                /\ Evaluated /\ FinallyClassified(i) =>
                      /\ e._colaChecked
                            = Cardinality({k \in DOMAIN cola_pairs :
                                              /\ ~Unusable(cola_pairs[k])
                                              /\ ~NoBasePay(i, cola_pairs[k])})
                      /\ (\A k \in DOMAIN cola_pairs :
                             Unusable(cola_pairs[k]) \/ NoBasePay(i, cola_pairs[k]))
                         => (~e._colaReceived /\ e._colaMissedLabels = <<>>)

\* a finally-classified employee with one valid pair whose beforeDate is
\* not in the timeline, one whose beforeDate pays 0, and one checked pair
C24_Witness ==
    /\ pc = "done"
    /\ \E i \in People : \E k, m \in DOMAIN cola_pairs :
          /\ FinallyClassified(i)
          /\ NoBasePay(i, cola_pairs[k])
          /\ cola_pairs[k].beforeDate \notin DOMAIN snap_pay_map[NameOf(i)]
          /\ NoBasePay(i, cola_pairs[m])
          /\ cola_pairs[m].beforeDate \in DOMAIN snap_pay_map[NameOf(i)]
          /\ index[NameOf(i)]._colaChecked = 1

\* ======================================================================
\* C25 -- class_transitions counts, per year, the snapshots that have a
\* date of that year and a status other than that of the snapshot before
\* them in the employee's timeline in date order: once each, under
\* toUnclassified when the snapshot is unclassified and under toClassified
\* otherwise.  Nothing else is counted, at any point of the walk, and the
\* aggregates list these entries by ascending year.
\* ======================================================================
\* The employees walked so far.
WalkedSoFar ==
    IF Walked THEN People
    ELSE IF pc \in {"walk", "failed"} THEN 1..(cur - 1)
    ELSE {}

\* The counted snapshots of a timeline in date order:
\* <<employee, position, year, whether unclassified>>.
MovesOf(i, tl) ==
    {<<i, j, tl[j].Date \div 10000, IsUnclassSource(tl[j].Source)>> :
        j \in {j \in 2..Len(tl) :
                  /\ Truthy(tl[j].Date)
                  /\ IsUnclassSource(tl[j].Source) # IsUnclassSource(tl[j - 1].Source)}}

Moves(S) == UNION {UNION {MovesOf(i, tl) : tl \in {timeline_sort(raw[i].Timeline)}} : i \in S}

C25_Transitions ==
    \A M \in {Moves(WalkedSoFar)} :
        /\ DOMAIN class_transitions = {m[3] : m \in M}
        /\ \A y \in DOMAIN class_transitions :
              /\ class_transitions[y].year = y
              /\ class_transitions[y].toUnclassified
                    = Cardinality({m \in M : m[3] = y /\ m[4]})
              /\ class_transitions[y].toClassified
                    = Cardinality({m \in M : m[3] = y /\ ~m[4]})
        /\ pc = "done" =>
              /\ Len(aggregates.classTransitions) = Cardinality(DOMAIN class_transitions)
              /\ \A k \in DOMAIN aggregates.classTransitions :
                    /\ aggregates.classTransitions[k]
                          = class_transitions[aggregates.classTransitions[k].year]
                    /\ k > 1 => aggregates.classTransitions[k - 1].year
                                   < aggregates.classTransitions[k].year

\* two changes in one year, one each way, and a change in another year;
\* a change at an undated snapshot that is not counted
C25_Witness ==
    /\ pc = "done"
    /\ Len(aggregates.classTransitions) = 2
    /\ \E k \in 1..2 :
          /\ aggregates.classTransitions[k].toUnclassified = 1
          /\ aggregates.classTransitions[k].toClassified = 1
          /\ aggregates.classTransitions[3 - k].toClassified = 1
    /\ \E i \in People : \E j \in 2..Len(raw[i].Timeline) :
          /\ ~Truthy(raw[i].Timeline[j].Date)
          /\ IsUnclassSource(raw[i].Timeline[j].Source)
                # IsUnclassSource(raw[i].Timeline[j - 1].Source)

\* ======================================================================
\* C26 -- at every point of the first pass and in the final historyStats
\* there is exactly one row per date of snapshot_dates and no other row,
\* and the row of a date has classified + unclassified = the number of
\* dated snapshots walked so far with that date and payroll =
\* payrollClassified + payrollUnclassified = the sum of their pay (the
\* sum of the two parts as a floating-point addition gives it, the sum of
\* the pay rounded once).
\* ======================================================================
\* The dated snapshots walked so far: <<employee, position>>.
Seen(d) ==
    {p \in Positions : p[1] \in WalkedSoFar /\ SnapAt(p).Date = d /\ Truthy(d)}

RECURSIVE Total(_)
Total(P) == IF P = {} THEN 0 ELSE LET p == CHOOSE q \in P : TRUE IN PayOf(p) + Total(P \ {p})

C26_StatsRows ==
    /\ DOMAIN stats_map = snapshot_dates
    /\ \A d \in DOMAIN stats_map :
          \A P \in {Seen(d)} :
              /\ stats_map[d].date = d
              /\ stats_map[d].classified
                    = Cardinality({p \in P : ~IsUnclassSource(SnapAt(p).Source)})
              /\ stats_map[d].unclassified
                    = Cardinality({p \in P : IsUnclassSource(SnapAt(p).Source)})
              /\ stats_map[d].payroll
                    = fadd(stats_map[d].payrollClassified, stats_map[d].payrollUnclassified)
              /\ stats_map[d].payroll = fround(Total(P))
    /\ pc = "done" =>
          /\ Len(aggregates.historyStats) = Cardinality(snapshot_dates)
          /\ \A k \in DOMAIN aggregates.historyStats :
                aggregates.historyStats[k] = stats_map[aggregates.historyStats[k].date]

\* ======================================================================
\* C27 -- when a snapshot of some employee is dated on the effective date
\* of an event, the event's beforeDate and afterDate are both that date and
\* the event is checked for no employee (it is in no missed list and is
\* not counted in checked); beforeDate = afterDate only for an event whose
\* effective date is the date of some snapshot.
\* ======================================================================
OnEffective(k) == \E p \in Positions : SnapAt(p).Date = COLA_EVENTS[k].effective

C27_OnEffectiveDate ==
    PairsBuilt =>
        \A k \in DOMAIN cola_pairs :
            /\ OnEffective(k) =>
                  /\ cola_pairs[k].beforeDate = COLA_EVENTS[k].effective
                  /\ cola_pairs[k].afterDate = COLA_EVENTS[k].effective
                  /\ Evaluated =>
                        \A n \in DOMAIN index :
                            /\ Count(index[n]._colaMissedLabels, COLA_EVENTS[k].label) = 0
                            /\ index[n]._colaChecked
                                  <= Cardinality({m \in DOMAIN cola_pairs : ~OnEffective(m)})
            /\ cola_pairs[k].beforeDate = cola_pairs[k].afterDate => OnEffective(k)

\* a finally-classified employee paid on the effective date of the first
\* event, and another paid before and after it for whom only a later event
\* is checked
C27_Witness ==
    /\ pc = "done"
    /\ OnEffective(1) /\ ~OnEffective(2)
    /\ \E i, j \in People :
          /\ FinallyClassified(i)
          /\ RefPay(i, COLA_EVENTS[1].effective) > 0
          /\ index[NameOf(i)]._colaChecked = 0
          /\ FinallyClassified(j)
          /\ \E d, e \in ObservedDates :
                /\ d < COLA_EVENTS[1].effective /\ COLA_EVENTS[1].effective < e
                /\ e < COLA_EVENTS[2].effective
                /\ RefPay(j, d) > 0 /\ RefPay(j, e) > 0
          /\ index[NameOf(j)]._colaChecked = 1

\* ======================================================================
\* C28 -- an employee who is not finally unclassified (finally classified,
\* or with an empty timeline) and for whom no pair is checked ends with
\* received = false, checked = 0, missed = [] and isMissing = false; the
\* received = true written by the first pass is still there after the
\* evaluation, with checked = 0, for the finally-unclassified employees
\* only.
\* ======================================================================
C28_DefaultOverwritten ==
    /\ (Walked /\ ~Evaluated /\ pc # "cola") =>
          \A n \in DOMAIN index : index[n]._colaReceived /\ index[n]._colaChecked = 0
    /\ Evaluated =>
          \A i \in People :
              LET e == index[NameOf(i)]
              IN  /\ (~FinallyUnclassified(i) /\ e._colaChecked = 0) =>
                        /\ ~e._colaReceived
                        /\ e._colaMissedLabels = <<>>
                        /\ ~e._colaMissing
                  /\ (~FinallyUnclassified(i)
                      /\ \A k \in DOMAIN cola_pairs :
                            Unusable(cola_pairs[k]) \/ NoBasePay(i, cola_pairs[k]))
                     => e._colaChecked = 0
                  /\ (e._colaReceived /\ e._colaChecked = 0) => FinallyUnclassified(i)

\* a paid, finally-classified employee for whom no pair is checked beside
\* an employee for whom one is
C28_Witness ==
    /\ pc = "done"
    /\ \E i, j \in People :
          /\ FinallyClassified(i)
          /\ PayOf(LastOf(i)) > 0
          /\ index[NameOf(i)]._colaChecked = 0
          /\ ~index[NameOf(i)]._colaReceived
          /\ ~index[NameOf(i)]._colaMissing
          /\ index[NameOf(j)]._colaChecked > 0

\* ======================================================================
\* C29 -- for a finally-classified employee with pay > 0 at the beforeDate
\* of a valid pair and no snapshot dated afterDate, the pay after is 0: the
\* event is counted in checked and its label is in missed, for each of the
\* configured events (a change of -100 percent is below requiredPercent -
\* tolerance); an employee with no other checked pair is reported missing.
\* ======================================================================
NoAfter(i, pair) ==
    /\ ~Unusable(pair)
    /\ RefPay(i, pair.beforeDate) > 0
    /\ \A j \in 1..Len(raw[i].Timeline) : raw[i].Timeline[j].Date # pair.afterDate

C29_NoAfterSnapshot ==
    /\ \A k \in 1..Len(COLA_EVENTS) : 0 - 1000 < COLA_EVENTS[k].pct - COLA_TOLERANCE_PCT
    /\ Evaluated =>
          \A i \in People :
              FinallyClassified(i) =>
                  \A gone \in {{k \in DOMAIN cola_pairs : NoAfter(i, cola_pairs[k])}} :
                      LET e == index[NameOf(i)]
                      IN  /\ \A k \in gone :
                                /\ snap_pay_map[NameOf(i)][cola_pairs[k].beforeDate] > 0
                                /\ cola_pairs[k].afterDate \notin DOMAIN snap_pay_map[NameOf(i)]
                                /\ Count(e._colaMissedLabels, COLA_EVENTS[k].label) = 1
                          /\ e._colaChecked >= Cardinality(gone)
                          /\ Len(e._colaMissedLabels) >= Cardinality(gone)
                          /\ (gone # {} /\ e._colaChecked = Cardinality(gone)) =>
                                (~e._colaReceived /\ e._colaMissing)

\* an employee who received the first raise and has no snapshot at the
\* afterDate of the second event
C29_Witness ==
    /\ pc = "done"
    /\ \E i \in People :
          /\ FinallyClassified(i)
          /\ NoAfter(i, cola_pairs[2])
          /\ index[NameOf(i)]._colaReceived
          /\ index[NameOf(i)]._colaChecked = 2
          /\ index[NameOf(i)]._colaMissedLabels = <<COLA_EVENTS[2].label>>

\* ======================================================================
\* C30 -- when a percentile that is not null is computed for an employee,
\* the cohort list it is computed from is in ascending order and holds the
\* pay of the employee's last snapshot at least once; every percentile
\* computed and every percentile reported is above 0 and below 100.
\* ======================================================================
Strictly(pp) == pp.den > 0 /\ 0 < pp.num /\ pp.num < 100 * pp.den

Sorting == pc \in {"percentiles", "store", "pairs", "cola", "write", "done"}

====
